---------------------------- MODULE Spec2Model ----------------------------
(***************************************************************************)
(* A model of the session/billing engine of GamingLoungeManager            *)
(* (src/main.py): the PlayStation sessions (two of the four stations are   *)
(* carried; the code treats all alike), the bill windows opened            *)
(* by end_session/show_bill, the offer check box and the instance fields   *)
(* apply_offer_var, current_offer and bill_total_frame it works through,   *)
(* the Excel ledger, the periodic update_timer, the services-only orders   *)
(* (current order, pending queue, services bills), the price settings     *)
(* with config.json, and the database tab (the rows shown, the delete).    *)
(*                                                                         *)
(* Time is counted in ticks of 3600/TicksPerHour seconds.  Money is        *)
(* counted in thousandths of the currency unit (MillsPerUnit), so that     *)
(* round(x, 2) and int(x) are real conversions.  Every rate used is a      *)
(* multiple of TicksPerHour mills, which makes duration_hours * rate the   *)
(* exact product the float arithmetic of the program yields on these       *)
(* values.                                                                 *)
(*                                                                         *)
(* A handler is one action.  The answer to a confirmation dialog           *)
(* (messagebox.askyesno) and the outcome of the Excel I/O are inputs of    *)
(* the action.  msg holds the message boxes the last handler showed.       *)
(***************************************************************************)
EXTENDS Integers, Sequences, FiniteSets, TLC

\* ------------------------------------------------------------------ bounds
MaxTime == 7
MaxHours == 2
MaxCharges == 1
MaxBills == 2
MaxLedger == 1
MaxDraft == 2
MaxPending == 2
MaxPendingBills == 1
MaxDay == 2
MaxListed == 3

\* ------------------------------------------------------- program constants
TicksPerHour == 2
MillsPerUnit == 1000

Stations == {"PS1", "PS2"}
Services == {"coffee", "tea"}
BillIds == 1..MaxBills
PBillIds == 1..MaxPendingBills

\* what is typed in the customer entry, character by character
Names == {<<>>, <<" ">>, <<" ", "A", " ">>}

\* the order of self.config["services"], which save_settings walks
ServiceOrder == <<"coffee", "tea">>

VARIABLES
    now,                   \* time.time(), in ticks
    config,                \* self.config
    sessions,              \* self.sessions
    services_listbox,      \* ps_frames[ps]["services_listbox"], the rows shown
    cost_label,            \* ps_frames[ps]["cost_label"], the amount shown
    bills,                 \* the open bill windows (tk.Toplevel of show_bill)
    apply_offer_var,       \* self.apply_offer_var
    current_offer,         \* self.current_offer
    bill_total_frame,      \* self.bill_total_frame
    ledger,                \* the rows of gaming_lounge_db.xlsx
    msg,                   \* the message boxes shown by the last handler
    services_only_list,    \* self.services_only_list
    services_customer_var, \* self.services_customer_var
    pending_orders,        \* self.pending_orders
    pending_tree,          \* the rows of self.pending_tree
    pending_bills,         \* the open "Services Bill" windows
    config_file,           \* the content of config.json
    tree,                  \* the rows the database tab shows (self.tree)
    today,                 \* datetime.now().strftime('%Y-%m-%d'), as a day number
    summary                \* what the labels of the daily summary show

configVars == <<config, config_file>>
viewVars == <<tree, today, summary>>
billVars == <<bills, apply_offer_var, current_offer, bill_total_frame>>
pendingVars == <<services_only_list, services_customer_var, pending_orders,
                 pending_tree, pending_bills>>
vars == <<now, config, sessions, services_listbox, cost_label, bills, apply_offer_var,
          current_offer, bill_total_frame, ledger, msg, services_only_list,
          services_customer_var, pending_orders, pending_tree, pending_bills,
          config_file, tree, today, summary>>

\* ----------------------------------------------------------------- helpers
RECURSIVE SumPrices(_)
SumPrices(s) == IF s = <<>> THEN 0 ELSE Head(s).price + SumPrices(Tail(s))

RemoveAt(s, i) == [k \in 1..(Len(s) - 1) |-> IF k < i THEN s[k] ELSE s[k + 1]]

\* str.strip()
RECURSIVE LStrip(_)
LStrip(s) == IF s # <<>> /\ Head(s) = " " THEN LStrip(Tail(s)) ELSE s

RECURSIVE RStrip(_)
RStrip(s) ==
    IF s # <<>> /\ s[Len(s)] = " " THEN RStrip(SubSeq(s, 1, Len(s) - 1)) ELSE s

Strip(s) == RStrip(LStrip(s))

\* int(x): truncation toward zero, in currency units
IntPart(x) == IF x >= 0 THEN x \div MillsPerUnit ELSE -((-x) \div MillsPerUnit)

\* round(x, 2): to the nearest hundredth, a tie going to the even hundredth
Round2(x) ==
    LET a == IF x >= 0 THEN x ELSE -x
        q == a \div 10
        r == a % 10
        up == r > 5 \/ (r = 5 /\ q % 2 = 1)
        m == 10 * (IF up THEN q + 1 ELSE q)
    IN  IF x >= 0 THEN m ELSE -m

\* duration / 3600 >= h
HoursAtLeast(d, h) == d >= h * TicksPerHour

\* (duration / 3600) * rate
HoursTimes(d, rate) == (d * rate) \div TicksPerHour

\* f"{hours:02d}:{minutes:02d}"
DurationStr(d) ==
    [hh |-> d \div TicksPerHour, mm |-> (d % TicksPerHour) * (60 \div TicksPerHour)]

\* ------------------------------------------------------------------ config
DefaultConfig ==
    [playstation_rate |-> 6000000,
     services |-> [s \in Services |-> IF s = "coffee" THEN 2500000 ELSE 2000000],
     offers |-> [enabled |-> TRUE, rate2 |-> 5000000, rate3 |-> 4666000]]

\* What load_config leaves in self.config: the defaults (no config.json), or
\* the defaults overlaid by a config.json that save_settings wrote earlier.
LoadableConfigs == {DefaultConfig}

\* ... with the offers switched on or off and a 2+ hour rate below or above
\* the hourly rate (save_settings accepts any number)
MeterConfigs ==
    {[DefaultConfig EXCEPT !.offers.enabled = e, !.offers.rate2 = r2] :
        e \in BOOLEAN, r2 \in {5000000, 7000000}}

IdleSession == [active |-> FALSE, start_time |-> -1, services |-> <<>>]

\* a bill window not opened yet, and one that was destroyed
NoBill == [ps |-> "none"]
Destroyed == [ps |-> "destroyed"]
IsOpen(b) == bills[b].ps \in Stations
NoVar == [bill |-> 0, value |-> FALSE]
NoOffer == [normal_cost |-> 0, offer_cost |-> 0, savings |-> 0]

\* a "Services Bill" window that is not open
NoPBill == [order_index |-> -1]
\* no config.json on disk
NoFile == [playstation_rate |-> -1]

InitState ==
    /\ now = 0
    /\ sessions = [ps \in Stations |-> IdleSession]
    /\ services_listbox = [ps \in Stations |-> <<>>]
    /\ cost_label = [ps \in Stations |-> 0]
    /\ bills = [b \in BillIds |-> NoBill]
    /\ apply_offer_var = NoVar
    /\ current_offer = NoOffer
    /\ bill_total_frame = 0
    /\ ledger = <<>>
    /\ msg = <<>>
    /\ services_only_list = <<>>
    /\ services_customer_var = <<>>
    /\ pending_orders = <<>>
    /\ pending_tree = <<>>
    /\ pending_bills = [pb \in PBillIds |-> NoPBill]
    /\ today = 1
    /\ tree = <<>>
    /\ summary = [date |-> 1, total |-> 0, ps |-> 0, services |-> 0, sessions |-> 0]

\* config.json is absent until save_settings writes it
Init == config \in LoadableConfigs /\ config_file = NoFile /\ InitState

\* config.json holds what an earlier run saved
InitMeter == config \in MeterConfigs /\ config_file = config /\ InitState

\* ------------------------------------------------------- calculate_ps_cost
\* mutant: the 2+ hour rate applied only to the time beyond two hours
calculate_ps_cost_prorated(d) ==
    IF ~config.offers.enabled
    THEN HoursTimes(d, config.playstation_rate)
    ELSE IF HoursAtLeast(d, 3) THEN HoursTimes(d, config.offers.rate3)
    ELSE IF HoursAtLeast(d, 2)
    THEN HoursTimes(2 * TicksPerHour, config.playstation_rate)
         + HoursTimes(d - 2 * TicksPerHour, config.offers.rate2)
    ELSE HoursTimes(d, config.playstation_rate)

\* mutant: the tiers tested lowest first
calculate_ps_cost_lowest_first(d) ==
    IF ~config.offers.enabled
    THEN HoursTimes(d, config.playstation_rate)
    ELSE IF HoursAtLeast(d, 2) THEN HoursTimes(d, config.offers.rate2)
    ELSE IF HoursAtLeast(d, 3) THEN HoursTimes(d, config.offers.rate3)
    ELSE HoursTimes(d, config.playstation_rate)

calculate_ps_cost(d) ==
    IF ~config.offers.enabled
    THEN HoursTimes(d, config.playstation_rate)
    ELSE IF HoursAtLeast(d, 3) THEN HoursTimes(d, config.offers.rate3)
    ELSE IF HoursAtLeast(d, 2) THEN HoursTimes(d, config.offers.rate2)
    ELSE HoursTimes(d, config.playstation_rate)

\* ------------------------------------------------------------ update_timer
\* int(current_ps_cost + services_cost) of a station at time t
RunningCost(ps, t) ==
    IF sessions[ps].active
    THEN IntPart(calculate_ps_cost(t - sessions[ps].start_time)
                 + SumPrices(sessions[ps].services))
    ELSE 0

\* mutant: the label shows the station cost without the charges
update_timer_without_charges ==
    /\ cost_label' = [ps \in Stations |->
                         IF sessions[ps].active
                         THEN IntPart(calculate_ps_cost(now - sessions[ps].start_time))
                         ELSE 0]
    /\ UNCHANGED <<now, configVars, sessions, services_listbox, billVars, ledger, msg, pendingVars, viewVars>>

\* The timer callback redraws the cost labels; it writes nothing else, and
\* no handler reads the labels.
update_timer ==
    /\ cost_label' = [ps \in Stations |-> RunningCost(ps, now)]
    /\ UNCHANGED <<now, configVars, sessions, services_listbox, billVars, ledger, msg, pendingVars, viewVars>>

\* ------------------------------------------------------------------- clock
\* dt ticks of time pass between two events, up to the time limit
clock(dt, limit) ==
    /\ now + dt <= limit
    /\ now' = now + dt
    /\ UNCHANGED <<configVars, sessions, services_listbox, cost_label, billVars, ledger, msg,
                   pendingVars, viewVars>>

\* ----------------------------------------------------------- start_session
\* mutant: no test of the active flag
start_session_unguarded(ps) ==
    \E confirm \in BOOLEAN :
        IF ~confirm THEN UNCHANGED vars
        ELSE /\ services_listbox' = services_listbox
             /\ sessions' = [sessions EXCEPT ![ps] =
                    [active |-> TRUE, start_time |-> now, services |-> <<>>]]
             /\ msg' = <<"started">>
             /\ UNCHANGED <<now, configVars, cost_label, billVars, ledger, pendingVars, viewVars>>

\* mutant: the start time is not taken
start_session_untimed(ps) ==
    \E confirm \in BOOLEAN :
        IF ~confirm THEN UNCHANGED vars
        ELSE IF sessions[ps].active
        THEN /\ msg' = <<"already in use">>
             /\ UNCHANGED <<now, configVars, sessions, services_listbox, cost_label, billVars, ledger,
                            pendingVars, viewVars>>
        ELSE /\ services_listbox' = services_listbox
             /\ sessions' = [sessions EXCEPT ![ps].active = TRUE]
             /\ msg' = <<"started">>
             /\ UNCHANGED <<now, configVars, cost_label, billVars, ledger, pendingVars, viewVars>>

start_session(ps) ==
    \E confirm \in BOOLEAN :
        IF ~confirm THEN UNCHANGED vars
        ELSE IF sessions[ps].active
        THEN /\ msg' = <<"already in use">>
             /\ UNCHANGED <<now, configVars, sessions, services_listbox, cost_label, billVars, ledger,
                            pendingVars, viewVars>>
        ELSE /\ services_listbox' = services_listbox
             /\ sessions' = [sessions EXCEPT ![ps] =
                    [active |-> TRUE, start_time |-> now, services |-> <<>>]]
             /\ msg' = <<"started">>
             /\ UNCHANGED <<now, configVars, cost_label, billVars, ledger, pendingVars, viewVars>>

\* indexing a list with an index past its end
\* raises IndexError out of the handler: nothing is changed
IndexError ==
    /\ msg' = <<"IndexError">>
    /\ UNCHANGED <<now, configVars, sessions, services_listbox, cost_label, billVars, ledger,
                   pendingVars, viewVars>>

\* ------------------------------------------------------------- add_service
\* mutant: no test of the active flag
add_service_unguarded(ps, service) ==
    \E confirm \in BOOLEAN :
        IF ~confirm THEN UNCHANGED vars
        ELSE /\ Len(sessions[ps].services) < MaxCharges
             /\ services_listbox' = [services_listbox EXCEPT ![ps] =
                       Append(sessions[ps].services,
                              [name |-> service, price |-> config.services[service]])]
             /\ sessions' = [sessions EXCEPT ![ps].services =
                    Append(@, [name |-> service, price |-> config.services[service]])]
             /\ msg' = <<"service added">>
             /\ UNCHANGED <<now, configVars, cost_label, billVars, ledger, pendingVars, viewVars>>

\* limit caps the length of the list of charges
add_service_within(ps, service, limit) ==
    IF ~sessions[ps].active
    THEN /\ msg' = <<"not active">>
         /\ UNCHANGED <<now, configVars, sessions, services_listbox, cost_label, billVars, ledger,
                        pendingVars, viewVars>>
    ELSE \E confirm \in BOOLEAN :
        IF ~confirm THEN UNCHANGED vars
        ELSE /\ Len(sessions[ps].services) < limit
             /\ services_listbox' = [services_listbox EXCEPT ![ps] =
                       Append(sessions[ps].services,
                              [name |-> service, price |-> config.services[service]])]
             /\ sessions' = [sessions EXCEPT ![ps].services =
                    Append(@, [name |-> service, price |-> config.services[service]])]
             /\ msg' = <<"service added">>
             /\ UNCHANGED <<now, configVars, cost_label, billVars, ledger, pendingVars, viewVars>>

add_service(ps, service) == add_service_within(ps, service, MaxCharges)

\* ---------------------------------------------------------- remove_service
\* index 0 stands for an empty selection of the list box; a selection is a
\* row of the list box, and self.sessions[ps_name]["services"][index] with an
\* index past the end of the list raises IndexError before anything changes
\* mutant: the first charge is deleted whatever the selection
remove_service_first(ps, index) ==
    IF index = 0
    THEN /\ msg' = <<"select a service">>
         /\ UNCHANGED <<now, configVars, sessions, services_listbox, cost_label, billVars, ledger,
                        pendingVars, viewVars>>
    ELSE /\ index \in 1..Len(services_listbox[ps])
         /\ IF index > Len(sessions[ps].services)
            THEN IndexError
            ELSE \E confirm \in BOOLEAN :
               IF ~confirm THEN UNCHANGED vars
               ELSE /\ services_listbox' = [services_listbox EXCEPT ![ps] =
                              RemoveAt(sessions[ps].services, 1)]
                    /\ sessions' = [sessions EXCEPT ![ps].services = RemoveAt(@, 1)]
                    /\ msg' = <<>>
                    /\ UNCHANGED <<now, configVars, cost_label, billVars, ledger,
                                   pendingVars, viewVars>>

remove_service(ps, index) ==
    IF index = 0
    THEN /\ msg' = <<"select a service">>
         /\ UNCHANGED <<now, configVars, sessions, services_listbox, cost_label, billVars, ledger,
                        pendingVars, viewVars>>
    ELSE /\ index \in 1..Len(services_listbox[ps])
         /\ IF index > Len(sessions[ps].services)
            THEN IndexError
            ELSE \E confirm \in BOOLEAN :
               IF ~confirm THEN UNCHANGED vars
               ELSE /\ services_listbox' = [services_listbox EXCEPT ![ps] =
                              RemoveAt(sessions[ps].services, index)]
                    /\ sessions' = [sessions EXCEPT ![ps].services = RemoveAt(@, index)]
                    /\ msg' = <<>>
                    /\ UNCHANGED <<now, configVars, cost_label, billVars, ledger,
                                   pendingVars, viewVars>>

\* --------------------------------------------------------------- show_bill
\* mutant: an offer from the first hour on
BillOffer_from_one_hour(d) ==
    LET normal_ps_cost == HoursTimes(d, config.playstation_rate)
    IN  IF HoursAtLeast(d, 1)
        THEN [offer_applied |-> TRUE, offer_text |-> "2+ Hour Offer",
              normal_cost |-> normal_ps_cost,
              offer_cost |-> HoursTimes(d, config.offers.rate2),
              savings |-> normal_ps_cost - HoursTimes(d, config.offers.rate2)]
        ELSE [offer_applied |-> FALSE, offer_text |-> "",
              normal_cost |-> normal_ps_cost,
              offer_cost |-> normal_ps_cost,
              savings |-> 0]

\* mutant: the bill is priced with the built-in rates
BillOffer_default_rates(d) ==
    LET normal_ps_cost == HoursTimes(d, DefaultConfig.playstation_rate)
    IN  IF HoursAtLeast(d, 3)
        THEN [offer_applied |-> TRUE, offer_text |-> "3+ Hour Offer",
              normal_cost |-> normal_ps_cost,
              offer_cost |-> HoursTimes(d, DefaultConfig.offers.rate3),
              savings |-> normal_ps_cost - HoursTimes(d, DefaultConfig.offers.rate3)]
        ELSE IF HoursAtLeast(d, 2)
        THEN [offer_applied |-> TRUE, offer_text |-> "2+ Hour Offer",
              normal_cost |-> normal_ps_cost,
              offer_cost |-> HoursTimes(d, DefaultConfig.offers.rate2),
              savings |-> normal_ps_cost - HoursTimes(d, DefaultConfig.offers.rate2)]
        ELSE [offer_applied |-> FALSE, offer_text |-> "",
              normal_cost |-> normal_ps_cost,
              offer_cost |-> normal_ps_cost,
              savings |-> 0]

\* the offer show_bill finds for a duration: lines 578-593
BillOffer(d) ==
    LET normal_ps_cost == HoursTimes(d, config.playstation_rate)
    IN  IF HoursAtLeast(d, 3)
        THEN [offer_applied |-> TRUE, offer_text |-> "3+ Hour Offer",
              normal_cost |-> normal_ps_cost,
              offer_cost |-> HoursTimes(d, config.offers.rate3),
              savings |-> normal_ps_cost - HoursTimes(d, config.offers.rate3)]
        ELSE IF HoursAtLeast(d, 2)
        THEN [offer_applied |-> TRUE, offer_text |-> "2+ Hour Offer",
              normal_cost |-> normal_ps_cost,
              offer_cost |-> HoursTimes(d, config.offers.rate2),
              savings |-> normal_ps_cost - HoursTimes(d, config.offers.rate2)]
        ELSE [offer_applied |-> FALSE, offer_text |-> "",
              normal_cost |-> normal_ps_cost,
              offer_cost |-> normal_ps_cost,
              savings |-> 0]

\* self.current_offer as show_bill stores it: lines 618-625
OfferDetails(o) ==
    [normal_cost |-> o.normal_cost, offer_cost |-> o.offer_cost, savings |-> o.savings]

\* the PlayStation cost update_bill_total and save_bill_to_database pick
\* from the instance fields: lines 666-676 and 688-691
ChosenCost(var, offer) ==
    IF var.value THEN offer.offer_cost ELSE offer.normal_cost

\* update_bill_total: redraws self.bill_total_frame from self.apply_offer_var
\* and self.current_offer, with the service_cost of the calling bill.  A
\* destroyed frame raises TclError in winfo_children and nothing is drawn.
update_bill_total(bs, frame, var, offer, service_cost) ==
    IF bs[frame] = Destroyed THEN bs
    ELSE [bs EXCEPT ![frame].total_ps = ChosenCost(var, offer),
                    ![frame].total = ChosenCost(var, offer) + service_cost]

\* the next bill window: windows are numbered in the order they are opened
FreeBill == CHOOSE b \in BillIds :
                bills[b] = NoBill /\ \A c \in 1..(b - 1) : bills[c] # NoBill

show_bill(b, ps, duration, service_cost) ==
    LET o == BillOffer(duration)
        var == [bill |-> b, value |-> o.offer_applied]
        window == [ps |-> ps, duration |-> duration, service_cost |-> service_cost,
                   offer_applied |-> o.offer_applied, offer_text |-> o.offer_text,
                   normal_cost |-> o.normal_cost, offer_cost |-> o.offer_cost,
                   savings |-> o.savings,
                   offer_var |-> o.offer_applied,
                   total_ps |-> 0, total |-> 0]
    IN  /\ apply_offer_var' = var
        /\ current_offer' = OfferDetails(o)
        /\ bill_total_frame' = b
        /\ bills' = update_bill_total([bills EXCEPT ![b] = window], b, var,
                                      OfferDetails(o), service_cost)

\* ------------------------------------------------------------- end_session
\* mutant: the session is reset as the bill is shown
end_session_resets(ps) ==
    \E confirm \in BOOLEAN :
        IF ~confirm THEN UNCHANGED vars
        ELSE IF ~sessions[ps].active
        THEN /\ msg' = <<"not in use">>
             /\ UNCHANGED <<now, configVars, sessions, services_listbox, cost_label, billVars, ledger,
                            pendingVars, viewVars>>
        ELSE /\ \E b \in BillIds : bills[b] = NoBill
             /\ show_bill(FreeBill, ps, now - sessions[ps].start_time,
                          SumPrices(sessions[ps].services))
             /\ services_listbox' = [services_listbox EXCEPT ![ps] = <<>>]
             /\ sessions' = [sessions EXCEPT ![ps] = IdleSession]
             /\ msg' = <<>>
             /\ UNCHANGED <<now, configVars, cost_label, ledger, pendingVars, viewVars>>

end_session(ps) ==
    \E confirm \in BOOLEAN :
        IF ~confirm THEN UNCHANGED vars
        ELSE IF ~sessions[ps].active
        THEN /\ msg' = <<"not in use">>
             /\ UNCHANGED <<now, configVars, sessions, services_listbox, cost_label, billVars, ledger,
                            pendingVars, viewVars>>
        ELSE /\ \E b \in BillIds : bills[b] = NoBill
             /\ show_bill(FreeBill, ps, now - sessions[ps].start_time,
                          SumPrices(sessions[ps].services))
             /\ msg' = <<>>
             /\ UNCHANGED <<now, configVars, sessions, services_listbox, cost_label, ledger,
                            pendingVars, viewVars>>

\* ----------------------------------------------- the "Apply offer" check box
\* The check box of bill b flips the BooleanVar show_bill created for b, then
\* runs its command, update_bill_total(bill_frame, duration_hours, service_cost)
toggle_offer(b) ==
    /\ IsOpen(b)
    /\ bills[b].offer_applied
    /\ LET var == IF apply_offer_var.bill = b
                  THEN [apply_offer_var EXCEPT !.value = ~@]
                  ELSE apply_offer_var
       IN  /\ apply_offer_var' = var
           /\ bills' = update_bill_total([bills EXCEPT ![b].offer_var = ~@],
                                         bill_total_frame, var, current_offer,
                                         bills[b].service_cost)
    /\ msg' = <<>>
    /\ UNCHANGED <<now, configVars, sessions, services_listbox, cost_label, current_offer,
                   bill_total_frame, ledger, pendingVars, viewVars>>

\* ------------------------------------------------------------ the database
\* df[column].sum()
RECURSIVE SumColumn(_, _)
SumColumn(df, column) ==
    IF df = <<>> THEN 0 ELSE Head(df)[column] + SumColumn(Tail(df), column)

\* mutant: the revenues are rounded to the nearest unit
update_daily_summary_rounded(df, display_date) ==
    IF df = <<>>
    THEN [date |-> display_date, total |-> 0, ps |-> 0, services |-> 0,
          sessions |-> 0]
    ELSE [date |-> display_date,
          total |-> IntPart(SumColumn(df, "Total_Cost") + 500),
          ps |-> IntPart(SumColumn(df, "PS_Cost") + 500),
          services |-> IntPart(SumColumn(df, "Service_Cost") + 500),
          sessions |-> Len(df)]

\* the labels update_daily_summary writes for the rows df: each revenue is
\* shown as f"{int(revenue):,}", without its fraction.  display_date 0 stands
\* for "All Dates".
update_daily_summary(df, display_date) ==
    IF df = <<>>
    THEN [date |-> display_date, total |-> 0, ps |-> 0, services |-> 0,
          sessions |-> 0]
    ELSE [date |-> display_date,
          total |-> IntPart(SumColumn(df, "Total_Cost")),
          ps |-> IntPart(SumColumn(df, "PS_Cost")),
          services |-> IntPart(SumColumn(df, "Service_Cost")),
          sessions |-> Len(df)]

\* ledger is the rows of the Excel file, cell by cell.  pd.read_excel parses
\* the text N/A and the empty cell as the missing value NaN; to_excel writes
\* NaN as an empty cell, and the tree shows it as the empty text.
NA == <<"N", "/", "A">>

NaN == <<"NaN">>

read_excel(file) ==
    [k \in 1..Len(file) |->
        [file[k] EXCEPT !.Customer =
            IF file[k].Customer \in {NA, <<>>} THEN NaN ELSE file[k].Customer]]

to_excel(df) ==
    [k \in 1..Len(df) |->
        [df[k] EXCEPT !.Customer =
            IF df[k].Customer = NaN THEN <<>> ELSE df[k].Customer]]

\* str(row[col]) if pd.notna(row[col]) else ""
TreeValues(df) ==
    [k \in 1..Len(df) |->
        [df[k] EXCEPT !.Customer =
            IF df[k].Customer = NaN THEN <<>> ELSE df[k].Customer]]

\* df[df['Date'] == d]: the rows of a date, in the order of the file
RECURSIVE RowsOfDate(_, _)
RowsOfDate(rows, d) ==
    IF rows = <<>> THEN <<>>
    ELSE IF Head(rows).Date = d
    THEN <<Head(rows)>> \o RowsOfDate(Tail(rows), d)
    ELSE RowsOfDate(Tail(rows), d)

\* ----------------------------------------------------------- close_session
\* the session is reset and the bill window destroyed; the instance fields
\* keep referring to the BooleanVar and the frame of the destroyed window
\* mutant: only the active flag is cleared
close_session_keeps_charges(ps, b) ==
    /\ services_listbox' = [services_listbox EXCEPT ![ps] = <<>>]
    /\ sessions' = [sessions EXCEPT ![ps].active = FALSE]
    /\ bills' = [bills EXCEPT ![b] = Destroyed]
    /\ UNCHANGED <<apply_offer_var, current_offer, bill_total_frame>>

\* mutant: the start time is kept
close_session_keeps_start(ps, b) ==
    /\ services_listbox' = [services_listbox EXCEPT ![ps] = <<>>]
    /\ sessions' = [sessions EXCEPT ![ps].active = FALSE, ![ps].services = <<>>]
    /\ bills' = [bills EXCEPT ![b] = Destroyed]
    /\ UNCHANGED <<apply_offer_var, current_offer, bill_total_frame>>

\* mutant: every station is reset
close_session_every_station(ps, b) ==
    /\ services_listbox' = [services_listbox EXCEPT ![ps] = <<>>]
    /\ sessions' = [p \in Stations |-> IdleSession]
    /\ bills' = [bills EXCEPT ![b] = Destroyed]
    /\ UNCHANGED <<apply_offer_var, current_offer, bill_total_frame>>

close_session(ps, b) ==
    /\ services_listbox' = [services_listbox EXCEPT ![ps] = <<>>]
    /\ sessions' = [sessions EXCEPT ![ps] = IdleSession]
    /\ bills' = [bills EXCEPT ![b] = Destroyed]
    /\ UNCHANGED <<apply_offer_var, current_offer, bill_total_frame>>

\* "Close Without Saving" of bill b
close_without_saving(b) ==
    /\ IsOpen(b)
    /\ close_session(bills[b].ps, b)
    /\ msg' = <<>>
    /\ UNCHANGED <<now, configVars, cost_label, ledger, pendingVars, viewVars>>

\* the text "None", written where a session has no charge (no item has that
\* name, so it differs from every list of charges)
NoneStr == <<[name |-> "None", price |-> 0]>>

\* --------------------------------------------------- save_bill_to_database
\* ", ".join(f"{s['name']}(${int(s['price']):,})") or "None"
ServicesStr(services) ==
    IF services = <<>> THEN NoneStr
    ELSE [k \in 1..Len(services) |->
             [name |-> services[k].name, price |-> IntPart(services[k].price)]]

NewRow(ps, duration, service_cost) ==
    LET ps_cost == ChosenCost(apply_offer_var, current_offer)
        total_cost == ps_cost + service_cost
    IN  [Date |-> today,
         PlayStation |-> ps,
         Customer |-> NA,
         Duration_Hours |-> DurationStr(duration),
         PS_Cost |-> Round2(ps_cost),
         Services |-> ServicesStr(sessions[ps].services),
         Service_Cost |-> Round2(service_cost),
         Total_Cost |-> Round2(total_cost)]

\* mutant: the row is written and the window closed, the session left as it is
save_bill_to_database_keeps_session(b) ==
    /\ IsOpen(b)
    /\ \E confirm \in BOOLEAN, io_ok \in BOOLEAN :
          IF ~confirm THEN UNCHANGED vars
          ELSE IF ~io_ok
          THEN /\ msg' = <<"failed to save">>
               /\ UNCHANGED <<now, configVars, sessions, services_listbox, cost_label, billVars, ledger,
                              pendingVars, viewVars>>
          ELSE /\ Len(RowsOfDate(ledger, today)) < MaxLedger
               /\ ledger' = to_excel(Append(read_excel(ledger),
                                             NewRow(bills[b].ps, bills[b].duration,
                                                    bills[b].service_cost)))
               /\ bills' = [bills EXCEPT ![b] = Destroyed]
               /\ msg' = <<"saved", "refreshed">>
               /\ tree' = TreeValues(RowsOfDate(read_excel(ledger'), today))
               /\ summary' = update_daily_summary(
                                RowsOfDate(read_excel(ledger'), today), today)
               /\ UNCHANGED <<now, configVars, sessions, services_listbox, cost_label,
                              apply_offer_var, current_offer, bill_total_frame,
                              pendingVars, today>>

\* mutant: the session is closed although the file could not be written
save_bill_to_database_closes_on_failure(b) ==
    /\ IsOpen(b)
    /\ \E confirm \in BOOLEAN, io_ok \in BOOLEAN :
          IF ~confirm THEN UNCHANGED vars
          ELSE IF ~io_ok
          THEN /\ msg' = <<"failed to save">>
               /\ close_session(bills[b].ps, b)
               /\ UNCHANGED <<now, configVars, cost_label, ledger, pendingVars,
                              viewVars>>
          ELSE /\ Len(RowsOfDate(ledger, today)) < MaxLedger
               /\ ledger' = to_excel(Append(read_excel(ledger),
                                             NewRow(bills[b].ps, bills[b].duration,
                                                    bills[b].service_cost)))
               /\ close_session(bills[b].ps, b)
               /\ msg' = <<"saved", "refreshed">>
               /\ tree' = TreeValues(RowsOfDate(read_excel(ledger'), today))
               /\ summary' = update_daily_summary(
                                RowsOfDate(read_excel(ledger'), today), today)
               /\ UNCHANGED <<now, configVars, cost_label, pendingVars, today>>

\* "Save to Database" of bill b; io_ok is the outcome of read_excel/to_excel
save_bill_to_database(b) ==
    /\ IsOpen(b)
    /\ \E confirm \in BOOLEAN, io_ok \in BOOLEAN :
          IF ~confirm THEN UNCHANGED vars
          ELSE IF ~io_ok
          THEN /\ msg' = <<"failed to save">>
               /\ UNCHANGED <<now, configVars, sessions, services_listbox, cost_label, billVars, ledger,
                              pendingVars, viewVars>>
          ELSE /\ Len(RowsOfDate(ledger, today)) < MaxLedger
               /\ ledger' = to_excel(Append(read_excel(ledger),
                                             NewRow(bills[b].ps, bills[b].duration,
                                                    bills[b].service_cost)))
               /\ close_session(bills[b].ps, b)
               /\ msg' = <<"saved", "refreshed">>
               /\ tree' = TreeValues(RowsOfDate(read_excel(ledger'), today))
               /\ summary' = update_daily_summary(
                                RowsOfDate(read_excel(ledger'), today), today)
               /\ UNCHANGED <<now, configVars, cost_label, pendingVars, today>>

\* ------------------------------------------------ the services-only orders
\* the customer entry is edited: whatever is typed is in the StringVar
set_customer(name) ==
    /\ services_customer_var' = name
    /\ msg' = <<>>
    /\ UNCHANGED <<now, configVars, sessions, services_listbox, cost_label, billVars, ledger,
                   services_only_list, pending_orders, pending_tree,
                   pending_bills, viewVars>>

add_service_only(service) ==
    \E confirm \in BOOLEAN :
        IF ~confirm THEN UNCHANGED vars
        ELSE /\ Len(services_only_list) < MaxDraft
             /\ services_only_list' =
                   Append(services_only_list,
                          [name |-> service, price |-> config.services[service]])
             /\ msg' = <<"added to current order">>
             /\ UNCHANGED <<now, configVars, sessions, services_listbox, cost_label, billVars,
                            ledger, services_customer_var, pending_orders,
                            pending_tree, pending_bills, viewVars>>

\* index 0 stands for an empty selection of the current order list box, which
\* always shows services_only_list (update_current_order_display)
remove_service_only(index) ==
    IF index = 0
    THEN /\ msg' = <<"select a service to remove">>
         /\ UNCHANGED <<now, configVars, sessions, services_listbox, cost_label, billVars, ledger,
                        pendingVars, viewVars>>
    ELSE /\ index \in 1..Len(services_only_list)
         /\ \E confirm \in BOOLEAN :
               IF ~confirm THEN UNCHANGED vars
               ELSE /\ services_only_list' = RemoveAt(services_only_list, index)
                    /\ msg' = <<>>
                    /\ UNCHANGED <<now, configVars, sessions, services_listbox, cost_label,
                                   billVars, ledger, services_customer_var,
                                   pending_orders, pending_tree, pending_bills, viewVars>>

clear_current_order ==
    IF services_only_list = <<>>
    THEN /\ msg' = <<"no services in current order">>
         /\ UNCHANGED <<now, configVars, sessions, services_listbox, cost_label, billVars, ledger,
                        pendingVars, viewVars>>
    ELSE \E confirm \in BOOLEAN :
            IF ~confirm THEN UNCHANGED vars
            ELSE /\ services_only_list' = <<>>
                 /\ services_customer_var' = <<>>
                 /\ msg' = <<"current order cleared">>
                 /\ UNCHANGED <<now, configVars, sessions, services_listbox, cost_label, billVars,
                                ledger, pending_orders, pending_tree,
                                pending_bills, viewVars>>

\* update_pending_orders_display: one row of the tree per pending order
TreeRows(orders) ==
    [k \in 1..Len(orders) |->
        [customer |-> orders[k].customer, total |-> orders[k].total]]

\* mutant: the customer name is tested as typed
add_to_pending_orders_unstripped ==
    IF services_only_list = <<>>
    THEN /\ msg' = <<"no services in current order">>
         /\ UNCHANGED <<now, configVars, sessions, services_listbox, cost_label, billVars, ledger,
                        pendingVars, viewVars>>
    ELSE IF services_customer_var = <<>>
    THEN /\ msg' = <<"enter customer name">>
         /\ UNCHANGED <<now, configVars, sessions, services_listbox, cost_label, billVars, ledger,
                        pendingVars, viewVars>>
    ELSE \E confirm \in BOOLEAN :
            IF ~confirm THEN UNCHANGED vars
            ELSE /\ Len(pending_orders) < MaxPending
                 /\ pending_orders' =
                       Append(pending_orders,
                              [customer |-> Strip(services_customer_var),
                               services |-> services_only_list,
                               total |-> SumPrices(services_only_list),
                               time_added |-> now])
                 /\ pending_tree' = TreeRows(pending_orders')
                 /\ services_only_list' = <<>>
                 /\ services_customer_var' = <<>>
                 /\ msg' = <<"added to pending orders">>
                 /\ UNCHANGED <<now, configVars, sessions, services_listbox, cost_label, billVars,
                                ledger, pending_bills, viewVars>>

\* mutant: an empty current order is accepted
add_to_pending_orders_unchecked ==
    IF Strip(services_customer_var) = <<>>
    THEN /\ msg' = <<"enter customer name">>
         /\ UNCHANGED <<now, configVars, sessions, services_listbox, cost_label, billVars, ledger,
                        pendingVars, viewVars>>
    ELSE \E confirm \in BOOLEAN :
            IF ~confirm THEN UNCHANGED vars
            ELSE /\ Len(pending_orders) < MaxPending
                 /\ pending_orders' =
                       Append(pending_orders,
                              [customer |-> Strip(services_customer_var),
                               services |-> services_only_list,
                               total |-> SumPrices(services_only_list),
                               time_added |-> now])
                 /\ pending_tree' = TreeRows(pending_orders')
                 /\ services_only_list' = <<>>
                 /\ services_customer_var' = <<>>
                 /\ msg' = <<"added to pending orders">>
                 /\ UNCHANGED <<now, configVars, sessions, services_listbox, cost_label, billVars,
                                ledger, pending_bills, viewVars>>

add_to_pending_orders ==
    IF services_only_list = <<>>
    THEN /\ msg' = <<"no services in current order">>
         /\ UNCHANGED <<now, configVars, sessions, services_listbox, cost_label, billVars, ledger,
                        pendingVars, viewVars>>
    ELSE IF Strip(services_customer_var) = <<>>
    THEN /\ msg' = <<"enter customer name">>
         /\ UNCHANGED <<now, configVars, sessions, services_listbox, cost_label, billVars, ledger,
                        pendingVars, viewVars>>
    ELSE \E confirm \in BOOLEAN :
            IF ~confirm THEN UNCHANGED vars
            ELSE /\ Len(pending_orders) < MaxPending
                 /\ pending_orders' =
                       Append(pending_orders,
                              [customer |-> Strip(services_customer_var),
                               services |-> services_only_list,
                               total |-> SumPrices(services_only_list),
                               time_added |-> now])
                 /\ pending_tree' = TreeRows(pending_orders')
                 /\ services_only_list' = <<>>
                 /\ services_customer_var' = <<>>
                 /\ msg' = <<"added to pending orders">>
                 /\ UNCHANGED <<now, configVars, sessions, services_listbox, cost_label, billVars,
                                ledger, pending_bills, viewVars>>


\* selection 0 stands for no selected row of the tree; the index of a
\* selected row is its position in the tree
generate_bill_for_pending(selection) ==
    IF selection = 0
    THEN /\ msg' = <<"select a pending order">>
         /\ UNCHANGED <<now, configVars, sessions, services_listbox, cost_label, billVars, ledger,
                        pendingVars, viewVars>>
    ELSE /\ selection \in 1..Len(pending_tree)
         /\ IF selection > Len(pending_orders) THEN IndexError
            ELSE \E confirm \in BOOLEAN :
                    IF ~confirm THEN UNCHANGED vars
                    ELSE /\ \E pb \in PBillIds : pending_bills[pb] = NoPBill
                         /\ LET pb == CHOOSE f \in PBillIds :
                                         /\ pending_bills[f] = NoPBill
                                         /\ \A g \in 1..(f - 1) :
                                               pending_bills[g] # NoPBill
                            IN  pending_bills' =
                                   [pending_bills EXCEPT ![pb] =
                                       [order |-> pending_orders[selection],
                                        order_index |-> selection]]
                         /\ msg' = <<>>
                         /\ UNCHANGED <<now, configVars, sessions, services_listbox, cost_label,
                                        billVars, ledger, services_only_list,
                                        services_customer_var, pending_orders,
                                        pending_tree, viewVars>>

\* "Close Without Saving" of a services bill: bill_window.destroy
close_pending_bill(pb) ==
    /\ pending_bills[pb] # NoPBill
    /\ pending_bills' = [pending_bills EXCEPT ![pb] = NoPBill]
    /\ msg' = <<>>
    /\ UNCHANGED <<now, configVars, sessions, services_listbox, cost_label, billVars, ledger,
                   services_only_list, services_customer_var, pending_orders,
                   pending_tree, viewVars>>

\* ", ".join(f"{s['name']}(${s['price']})")
PendingServicesStr(services) ==
    [k \in 1..Len(services) |->
        [name |-> services[k].name, price |-> services[k].price]]

\* mutant: the row is written as a station row is, without the customer
PendingRow_anonymous(order) ==
    [Date |-> today,
     PlayStation |-> "Services Only",
     Customer |-> NA,
     Duration_Hours |-> [hh |-> 0, mm |-> 0],
     PS_Cost |-> 0,
     Services |-> PendingServicesStr(order.services),
     Service_Cost |-> Round2(order.total),
     Total_Cost |-> Round2(order.total)]

PendingRow(order) ==
    [Date |-> today,
     PlayStation |-> "Services Only",
     Customer |-> order.customer,
     Duration_Hours |-> [hh |-> 0, mm |-> 0],
     PS_Cost |-> 0,
     Services |-> PendingServicesStr(order.services),
     Service_Cost |-> Round2(order.total),
     Total_Cost |-> Round2(order.total)]

\* "Save & Complete Order" of the services bill pb.  The row is written to
\* the Excel file; the next statement, del self.pending_orders[item_index],
\* names a variable the function does not have (its parameter is
\* order_index): NameError is raised and caught by except Exception, so the
\* order stays in the queue, the window stays open and the error box is shown
\* (its text ends with str(e), which tells the two failures apart).
save_pending_to_database(pb) ==
    /\ pending_bills[pb] # NoPBill
    /\ \E confirm \in BOOLEAN, io_ok \in BOOLEAN :
          IF ~confirm THEN UNCHANGED vars
          ELSE IF ~io_ok
          THEN /\ msg' = <<"failed to save order", "IOError">>
               /\ UNCHANGED <<now, configVars, sessions, services_listbox, cost_label, billVars,
                              ledger, pendingVars, viewVars>>
          ELSE /\ Len(RowsOfDate(ledger, today)) < MaxLedger
               /\ ledger' = to_excel(Append(read_excel(ledger),
                                             PendingRow(pending_bills[pb].order)))
               /\ msg' = <<"failed to save order", "NameError">>
               /\ UNCHANGED <<now, configVars, sessions, services_listbox, cost_label, billVars,
                              pendingVars, viewVars>>

\* mutant: the first order is removed, whatever row is selected
remove_pending_order_first(selection) ==
    IF selection = 0
    THEN /\ msg' = <<"select a pending order to remove">>
         /\ UNCHANGED <<now, configVars, sessions, services_listbox, cost_label, billVars, ledger,
                        pendingVars, viewVars>>
    ELSE /\ selection \in 1..Len(pending_tree)
         /\ IF selection > Len(pending_orders) THEN IndexError
            ELSE \E confirm \in BOOLEAN :
                    IF ~confirm THEN UNCHANGED vars
                    ELSE /\ pending_orders' = RemoveAt(pending_orders, 1)
                         /\ pending_tree' = TreeRows(pending_orders')
                         /\ msg' = <<"pending order removed">>
                         /\ UNCHANGED <<now, configVars, sessions, services_listbox, cost_label,
                                        billVars, ledger, services_only_list,
                                        services_customer_var, pending_bills, viewVars>>

remove_pending_order(selection) ==
    IF selection = 0
    THEN /\ msg' = <<"select a pending order to remove">>
         /\ UNCHANGED <<now, configVars, sessions, services_listbox, cost_label, billVars, ledger,
                        pendingVars, viewVars>>
    ELSE /\ selection \in 1..Len(pending_tree)
         /\ IF selection > Len(pending_orders) THEN IndexError
            ELSE \E confirm \in BOOLEAN :
                    IF ~confirm THEN UNCHANGED vars
                    ELSE /\ pending_orders' = RemoveAt(pending_orders, selection)
                         /\ pending_tree' = TreeRows(pending_orders')
                         /\ msg' = <<"pending order removed">>
                         /\ UNCHANGED <<now, configVars, sessions, services_listbox, cost_label,
                                        billVars, ledger, services_only_list,
                                        services_customer_var, pending_bills, viewVars>>

\* mutant: the order loaded for editing also stays in the queue
add_more_services_to_pending_keeps(selection) ==
    IF selection = 0
    THEN /\ msg' = <<"select a pending order">>
         /\ UNCHANGED <<now, configVars, sessions, services_listbox, cost_label, billVars, ledger,
                        pendingVars, viewVars>>
    ELSE /\ selection \in 1..Len(pending_tree)
         /\ IF selection > Len(pending_orders) THEN IndexError
            ELSE /\ services_only_list' = pending_orders[selection].services
                 /\ services_customer_var' = pending_orders[selection].customer
                 /\ msg' = <<"loaded for editing">>
                 /\ UNCHANGED <<now, configVars, sessions, services_listbox, cost_label, billVars,
                                ledger, pending_orders, pending_tree,
                                pending_bills, viewVars>>

\* mutant: the charges of the order are put after those of the current order
add_more_services_to_pending_extends(selection) ==
    IF selection = 0
    THEN /\ msg' = <<"select a pending order">>
         /\ UNCHANGED <<now, configVars, sessions, services_listbox, cost_label, billVars, ledger,
                        pendingVars, viewVars>>
    ELSE /\ selection \in 1..Len(pending_tree)
         /\ IF selection > Len(pending_orders) THEN IndexError
            ELSE /\ services_only_list' =
                       services_only_list \o pending_orders[selection].services
                 /\ services_customer_var' = pending_orders[selection].customer
                 /\ pending_orders' = RemoveAt(pending_orders, selection)
                 /\ pending_tree' = TreeRows(pending_orders')
                 /\ msg' = <<"loaded for editing">>
                 /\ UNCHANGED <<now, configVars, sessions, services_listbox, cost_label, billVars,
                                ledger, pending_bills, viewVars>>

add_more_services_to_pending(selection) ==
    IF selection = 0
    THEN /\ msg' = <<"select a pending order">>
         /\ UNCHANGED <<now, configVars, sessions, services_listbox, cost_label, billVars, ledger,
                        pendingVars, viewVars>>
    ELSE /\ selection \in 1..Len(pending_tree)
         /\ IF selection > Len(pending_orders) THEN IndexError
            ELSE /\ services_only_list' = pending_orders[selection].services
                 /\ services_customer_var' = pending_orders[selection].customer
                 /\ pending_orders' = RemoveAt(pending_orders, selection)
                 /\ pending_tree' = TreeRows(pending_orders')
                 /\ msg' = <<"loaded for editing">>
                 /\ UNCHANGED <<now, configVars, sessions, services_listbox, cost_label, billVars,
                                ledger, pending_bills, viewVars>>

\* ------------------------------------------------------- the database tab
\* refresh_database(filter_date, show_all): filter_date 0 stands for None.
\* The tree is emptied before the file is read; read_ok is the outcome of
\* read_excel.
refresh_database(filter_date, show_all) ==
    \E read_ok \in BOOLEAN :
        LET df == read_excel(ledger)
            display_date == IF filter_date # 0 /\ ~show_all THEN filter_date
                            ELSE IF ~show_all THEN today
                            ELSE 0
            df_filtered == IF show_all THEN df ELSE RowsOfDate(df, display_date)
        IN
        /\ tree' = IF read_ok THEN TreeValues(df_filtered) ELSE <<>>
        /\ summary' = IF read_ok THEN update_daily_summary(df_filtered, display_date)
                      ELSE summary
        /\ msg' = IF read_ok THEN <<"refreshed">> ELSE <<"failed to refresh">>
        /\ UNCHANGED <<now, configVars, sessions, services_listbox, cost_label, billVars, ledger,
                       pendingVars, today>>

\* "Load Date" with the date the three combo boxes hold
load_date_data(selected_date) == refresh_database(selected_date, FALSE)

show_all_data == refresh_database(0, TRUE)

\* "Delete Selected": selection 0 stands for no selected row of the tree;
\* the index of the selected row is its position in the tree, and the row
\* dropped from the file is df.index[item_index] of the whole file.  An index
\* past the end of the file raises IndexError, reported as a failed delete.
\* The view is then refreshed for today.
delete_selected_row(selection) ==
    IF selection = 0
    THEN /\ msg' = <<"select a row to delete">>
         /\ UNCHANGED <<now, configVars, sessions, services_listbox, cost_label, billVars, ledger,
                        pendingVars, viewVars>>
    ELSE /\ selection \in 1..Len(tree)
         /\ \E confirm \in BOOLEAN, io_ok \in BOOLEAN :
               IF ~confirm THEN UNCHANGED vars
               ELSE IF ~io_ok \/ selection > Len(ledger)
               THEN /\ msg' = <<"failed to delete">>
                    /\ UNCHANGED <<now, configVars, sessions, services_listbox, cost_label, billVars,
                                   ledger, pendingVars, viewVars>>
               ELSE /\ ledger' = to_excel(RemoveAt(read_excel(ledger), selection))
                    /\ tree' = TreeValues(RowsOfDate(read_excel(ledger'), today))
                    /\ summary' = update_daily_summary(
                                     RowsOfDate(read_excel(ledger'), today), today)
                    /\ msg' = <<"refreshed", "deleted">>
                    /\ UNCHANGED <<now, configVars, sessions, services_listbox, cost_label, billVars,
                                   pendingVars, today>>

\* midnight passes
next_day(limit) ==
    /\ today < limit
    /\ today' = today + 1
    /\ UNCHANGED <<now, configVars, sessions, services_listbox, cost_label, billVars, ledger, msg,
                   pendingVars, tree, summary>>

\* ---------------------------------------------------------------- settings
\* the text of a settings entry, as float() reads it: a number, or ValueError
Number(v) == [valid |-> TRUE, value |-> v]
NotANumber == [valid |-> FALSE, value |-> 0]

\* the service prices are parsed and stored one by one, in the order of
\* self.config["services"], up to the first entry float() refuses
RECURSIVE StoreServices(_, _, _)
StoreServices(cfg, entries, k) ==
    IF k > Len(ServiceOrder) THEN [config |-> cfg, ok |-> TRUE]
    ELSE IF ~entries[ServiceOrder[k]].valid THEN [config |-> cfg, ok |-> FALSE]
    ELSE StoreServices([cfg EXCEPT !.services[ServiceOrder[k]] =
                                       entries[ServiceOrder[k]].value],
                       entries, k + 1)

\* self.config after the try block of save_settings has run on the entries:
\* every field before the first refused entry is already stored
StoreSettings(cfg, entries) ==
    IF ~entries.ps_rate.valid THEN [config |-> cfg, ok |-> FALSE]
    ELSE LET c1 == [cfg EXCEPT !.playstation_rate = entries.ps_rate.value]
             r2 == StoreServices(c1, entries.services, 1)
             c3 == [r2.config EXCEPT !.offers.enabled = entries.enabled]
         IN  IF ~r2.ok THEN r2
             ELSE IF ~entries.rate2.valid THEN [config |-> c3, ok |-> FALSE]
             ELSE IF ~entries.rate3.valid
             THEN [config |-> [c3 EXCEPT !.offers.rate2 = entries.rate2.value],
                   ok |-> FALSE]
             ELSE [config |-> [c3 EXCEPT !.offers.rate2 = entries.rate2.value,
                                         !.offers.rate3 = entries.rate3.value],
                   ok |-> TRUE]

\* mutant: the charges of the running sessions follow the saved prices
save_settings_reprices(entries) ==
    \E confirm \in BOOLEAN, io_ok \in BOOLEAN :
        IF ~confirm THEN UNCHANGED vars
        ELSE LET r == StoreSettings(config, entries)
             IN  /\ config' = r.config
                 /\ config_file' = IF r.ok /\ io_ok THEN r.config ELSE config_file
                 /\ msg' = IF ~r.ok THEN <<"enter valid numbers">>
                           ELSE IF ~io_ok THEN <<"failed to save settings">>
                           ELSE <<"settings saved">>
                 /\ services_listbox' = services_listbox
                 /\ sessions' =
                       [ps \in Stations |->
                           [sessions[ps] EXCEPT !.services =
                               [k \in 1..Len(sessions[ps].services) |->
                                   [name |-> sessions[ps].services[k].name,
                                    price |-> r.config.services[
                                                 sessions[ps].services[k].name]]]]]
                 /\ UNCHANGED <<now, cost_label, billVars, ledger, pendingVars, viewVars>>

\* entries: what the settings tab holds when "Save Settings" is pressed;
\* io_ok: whether config.json could be opened for writing
save_settings(entries) ==
    \E confirm \in BOOLEAN, io_ok \in BOOLEAN :
        IF ~confirm THEN UNCHANGED vars
        ELSE LET r == StoreSettings(config, entries)
             IN  /\ config' = r.config
                 /\ config_file' = IF r.ok /\ io_ok THEN r.config ELSE config_file
                 /\ msg' = IF ~r.ok THEN <<"enter valid numbers">>
                           ELSE IF ~io_ok THEN <<"failed to save settings">>
                           ELSE <<"settings saved">>
                 /\ UNCHANGED <<now, sessions, services_listbox, cost_label, billVars, ledger,
                                pendingVars, viewVars>>

reset_settings ==
    \E confirm \in BOOLEAN :
        IF ~confirm THEN UNCHANGED vars
        ELSE /\ config' = DefaultConfig
             /\ msg' = <<"settings reset">>
             /\ UNCHANGED <<now, config_file, sessions, services_listbox, cost_label, billVars,
                            ledger, pendingVars, viewVars>>

\* self.config.update(loaded_config): every top-level key of the file takes
\* the place of the key of the same name, whatever the file holds under it
load_config(cfg, file) ==
    IF file = NoFile THEN cfg
    ELSE [k \in (DOMAIN cfg) \cup (DOMAIN file) |->
             IF k \in DOMAIN file THEN file[k] ELSE cfg[k]]

\* what "load_config_file" stores: the known keys of the file, one by one
OfferKeys == {"enabled", "rate2", "rate3"}

MergeFile(cfg, file) ==
    LET c1 == IF "playstation_rate" \in DOMAIN file
              THEN [cfg EXCEPT !.playstation_rate = file.playstation_rate]
              ELSE cfg
        c2 == IF "services" \in DOMAIN file
              THEN [c1 EXCEPT !.services =
                       [s \in DOMAIN c1.services |->
                           IF s \in DOMAIN file.services
                           THEN file.services[s] ELSE c1.services[s]]]
              ELSE c1
    IN  IF "offers" \in DOMAIN file
        THEN [c2 EXCEPT !.offers =
                 [k \in (DOMAIN c2.offers) \cup (OfferKeys \cap DOMAIN file.offers) |->
                     IF k \in OfferKeys \cap DOMAIN file.offers
                     THEN file.offers[k] ELSE c2.offers[k]]]
        ELSE c2

\* the load button of the settings: read_ok is the outcome of open/json.load
load_config_file ==
    IF config_file = NoFile
    THEN /\ msg' = <<"config.json not found">>
         /\ UNCHANGED <<now, configVars, sessions, services_listbox, cost_label, billVars, ledger,
                        pendingVars, viewVars>>
    ELSE \E read_ok \in BOOLEAN :
            /\ config' = IF read_ok THEN MergeFile(config, config_file) ELSE config
            /\ msg' = IF read_ok THEN <<"settings loaded">>
                      ELSE <<"failed to load config file">>
            /\ UNCHANGED <<now, config_file, sessions, services_listbox, cost_label, billVars,
                           ledger, pendingVars, viewVars>>

\* The window is closed and the program started again: __init__ builds the
\* defaults, load_config overlays config.json, the sessions and the orders
\* start empty and the database tab shows today's rows of the Excel file
\* (the summary labels keep their first texts, date "Today", when the file
\* cannot be read).
restart ==
    \E read_ok \in BOOLEAN :
        /\ config' = load_config(DefaultConfig, config_file)
        /\ services_listbox' = [ps \in Stations |-> <<>>]
        /\ sessions' = [ps \in Stations |-> IdleSession]
        /\ cost_label' = [ps \in Stations |-> 0]
        /\ bills' = [b \in BillIds |-> NoBill]
        /\ apply_offer_var' = NoVar
        /\ current_offer' = NoOffer
        /\ bill_total_frame' = 0
        /\ services_only_list' = <<>>
        /\ services_customer_var' = <<>>
        /\ pending_orders' = <<>>
        /\ pending_tree' = <<>>
        /\ pending_bills' = [pb \in PBillIds |-> NoPBill]
        /\ tree' = IF read_ok
                   THEN TreeValues(RowsOfDate(read_excel(ledger), today))
                   ELSE <<>>
        /\ summary' = IF read_ok
                      THEN update_daily_summary(
                               RowsOfDate(read_excel(ledger), today), today)
                      ELSE [date |-> -1, total |-> 0, ps |-> 0, services |-> 0,
                            sessions |-> 0]
        /\ msg' = IF read_ok THEN <<"refreshed">> ELSE <<"failed to refresh">>
        /\ UNCHANGED <<now, config_file, ledger, today>>

\* ---------------------------------------------------------- specifications
\* The session and billing engine with all its stations and bill windows.
\* Time passes in whole hours, the one service ordered is coffee, and the
\* timer callback, which writes only the cost labels, is left to SpecMeter.
Next ==
    \/ clock(TicksPerHour, MaxHours * TicksPerHour)
    \/ \E ps \in Stations : start_session(ps)
    \/ \E ps \in Stations : add_service(ps, "coffee")
    \/ \E ps \in Stations, index \in 0..MaxCharges : remove_service(ps, index)
    \/ \E ps \in Stations : end_session(ps)
    \/ \E b \in BillIds : toggle_offer(b)
    \/ \E b \in BillIds : save_bill_to_database(b)
    \/ \E b \in BillIds : close_without_saving(b)

Spec == Init /\ [][Next]_vars

\* The metering of one station, tick by tick, under the configurations of
\* MeterConfigs: its running cost, its bills and what they commit.
NextMeter ==
    \/ clock(1, MaxTime)
    \/ update_timer
    \/ start_session("PS1")
    \/ end_session("PS1")
    \/ \E b \in BillIds : save_bill_to_database(b)
    \/ \E b \in BillIds : close_without_saving(b)

SpecMeter == InitMeter /\ [][NextMeter]_vars

\* The services-only orders: the draft, the pending queue with its tree, the
\* services bills and the ledger rows they write.
InitOrders == Init

NextOrders ==
    \/ \E name \in Names : set_customer(name)
    \/ \E service \in Services : add_service_only(service)
    \/ \E index \in 0..MaxDraft : remove_service_only(index)
    \/ clear_current_order
    \/ add_to_pending_orders
    \/ \E selection \in 0..MaxPending : generate_bill_for_pending(selection)
    \/ \E pb \in PBillIds : save_pending_to_database(pb)
    \/ \E pb \in PBillIds : close_pending_bill(pb)
    \/ \E selection \in 0..MaxPending : remove_pending_order(selection)
    \/ \E selection \in 0..MaxPending : add_more_services_to_pending(selection)

SpecOrders == InitOrders /\ [][NextOrders]_vars

\* The ledger over two days: station bills and services bills write rows,
\* the database tab shows today's rows, the rows of a chosen date or all
\* rows, and "Delete Selected" drops a row of the file.  One customer orders
\* one tea at a time.
InitLedger == config = DefaultConfig /\ config_file = NoFile /\ InitState

NextLedger ==
    \/ next_day(MaxDay)
    \/ start_session("PS1")
    \/ add_service("PS1", "coffee")
    \/ end_session("PS1")
    \/ \E b \in BillIds : save_bill_to_database(b)
    \/ \E b \in BillIds : close_without_saving(b)
    \/ set_customer(<<"A">>)
    \/ services_only_list = <<>> /\ add_service_only("tea")
    \/ pending_orders = <<>> /\ add_to_pending_orders
    \/ \E selection \in 0..1 : generate_bill_for_pending(selection)
    \/ \E pb \in PBillIds : save_pending_to_database(pb)
    \/ \E pb \in PBillIds : close_pending_bill(pb)
    \/ refresh_database(0, FALSE)
    \/ \E selected_date \in 1..MaxDay : load_date_data(selected_date)
    \/ show_all_data
    \/ \E selection \in 0..(MaxLedger * MaxDay) : delete_selected_row(selection)

SpecLedger == InitLedger /\ [][NextLedger]_vars

\* Saving bills while the Excel file may fail to be read or written: one
\* station session of two hours with coffee charged to it, and one
\* customer's order of one tea.
NextSave ==
    \/ clock(MaxHours * TicksPerHour, MaxHours * TicksPerHour)
    \/ start_session("PS1")
    \/ add_service("PS1", "coffee")
    \/ end_session("PS1")
    \/ \E b \in BillIds : toggle_offer(b)
    \/ \E b \in BillIds : save_bill_to_database(b)
    \/ \E b \in BillIds : close_without_saving(b)
    \/ set_customer(<<"A">>)
    \/ services_only_list = <<>> /\ add_service_only("tea")
    \/ pending_orders = <<>> /\ add_to_pending_orders
    \/ \E selection \in 0..1 : generate_bill_for_pending(selection)
    \/ \E pb \in PBillIds : save_pending_to_database(pb)
    \/ \E pb \in PBillIds : close_pending_bill(pb)

SpecSave == InitLedger /\ [][NextSave]_vars

\* Bills under prices with a fraction of a cent: config.json holds the
\* defaults, or an hourly rate of 6000.004 and a coffee price of 2500.004
\* (save_settings accepts any number); a session of an hour with a coffee,
\* and one customer's order of one coffee.
RoundConfigs ==
    {DefaultConfig,
     [DefaultConfig EXCEPT !.playstation_rate = 6000004,
                           !.services["coffee"] = 2500004]}

InitRound == config \in RoundConfigs /\ config_file = config /\ InitState

NextRound ==
    \/ clock(TicksPerHour, TicksPerHour)
    \/ start_session("PS1")
    \/ add_service("PS1", "coffee")
    \/ end_session("PS1")
    \/ \E b \in BillIds : save_bill_to_database(b)
    \/ \E b \in BillIds : close_without_saving(b)
    \/ set_customer(<<"A">>)
    \/ services_only_list = <<>> /\ add_service_only("coffee")
    \/ pending_orders = <<>> /\ add_to_pending_orders
    \/ \E selection \in 0..1 : generate_bill_for_pending(selection)
    \/ \E pb \in PBillIds : save_pending_to_database(pb)
    \/ \E pb \in PBillIds : close_pending_bill(pb)

SpecRound == InitRound /\ [][NextRound]_vars

\* The daily summary over two days, with the default prices or with a
\* coffee price of 2500.50: station bills with a coffee are saved, the view
\* is refreshed for today, for a chosen date or for all dates, and rows are
\* deleted.
SummaryConfigs ==
    {DefaultConfig, [DefaultConfig EXCEPT !.services["coffee"] = 2500500]}

InitSummary == config \in SummaryConfigs /\ config_file = config /\ InitState

NextSummary ==
    \/ next_day(MaxDay)
    \/ start_session("PS1")
    \/ add_service("PS1", "coffee")
    \/ end_session("PS1")
    \/ \E b \in BillIds : save_bill_to_database(b)
    \/ \E b \in BillIds : close_without_saving(b)
    \/ refresh_database(0, FALSE)
    \/ \E selected_date \in 1..MaxDay : load_date_data(selected_date)
    \/ show_all_data
    \/ \E selection \in 0..(MaxLedger * MaxDay) : delete_selected_row(selection)

SpecSummary == InitSummary /\ [][NextSummary]_vars

\* Two stations side by side with a customer's order of one tea: sessions
\* are started, charged, ended, saved and discarded on either station while
\* the order is queued, billed, saved, reopened and removed.
NextStations ==
    \/ \E ps \in Stations : start_session(ps)
    \/ \E ps \in Stations : add_service(ps, "coffee")
    \/ \E ps \in Stations, index \in 0..MaxCharges : remove_service(ps, index)
    \/ \E ps \in Stations : end_session(ps)
    \/ \E b \in BillIds : save_bill_to_database(b)
    \/ \E b \in BillIds : close_without_saving(b)
    \/ set_customer(<<"A">>)
    \/ services_only_list = <<>> /\ add_service_only("tea")
    \/ pending_orders = <<>> /\ add_to_pending_orders
    \/ \E selection \in 0..1 : generate_bill_for_pending(selection)
    \/ \E pb \in PBillIds : save_pending_to_database(pb)
    \/ \E pb \in PBillIds : close_pending_bill(pb)
    \/ \E selection \in 0..1 : remove_pending_order(selection)
    \/ \E selection \in 0..1 : add_more_services_to_pending(selection)

SpecStations == InitLedger /\ [][NextStations]_vars

\* One station with up to MaxListed charges of coffee and tea in its list
\* box: charges are added and removed at every row while sessions are
\* started, ended, saved and discarded.
NextCharges ==
    \/ start_session("PS1")
    \/ \E service \in Services : add_service_within("PS1", service, MaxListed)
    \/ \E index \in 0..MaxListed : remove_service("PS1", index)
    \/ end_session("PS1")
    \/ \E b \in BillIds : save_bill_to_database(b)
    \/ \E b \in BillIds : close_without_saving(b)

SpecCharges == InitLedger /\ [][NextCharges]_vars

\* The timer callback between the events of a station, beside an idle one,
\* and of the pending queue, with the built-in rates and with an hourly rate whose share for
\* half an hour is not a whole amount (as the cost of a session is not at
\* most instants).
TickConfigs == {DefaultConfig, [DefaultConfig EXCEPT !.playstation_rate = 6001000]}

InitTick == config \in TickConfigs /\ config_file = config /\ InitState

NextTick ==
    \/ clock(1, TicksPerHour)
    \/ update_timer
    \/ start_session("PS1")
    \/ add_service("PS1", "coffee")
    \/ end_session("PS1")
    \/ \E b \in BillIds : save_bill_to_database(b)
    \/ services_customer_var = <<>> /\ set_customer(<<"A">>)
    \/ services_only_list = <<>> /\ add_service_only("tea")
    \/ pending_orders = <<>> /\ add_to_pending_orders

SpecTick == InitTick /\ [][NextTick]_vars

\* One session of PS1 and no other: Start Session is pressed only while no
\* bill window has been opened yet, so the station is started once; the
\* session is charged, ended any number of times, saved and discarded, on
\* one day or across midnight.
NextOneSession ==
    \/ (\A b \in BillIds : bills[b] = NoBill) /\ start_session("PS1")
    \/ clock(1, TicksPerHour)
    \/ add_service("PS1", "coffee")
    \/ end_session("PS1")
    \/ \E b \in BillIds : save_bill_to_database(b)
    \/ \E b \in BillIds : close_without_saving(b)
    \/ next_day(MaxDay)

SpecOneSession == InitLedger /\ [][NextOneSession]_vars

\* One services-only order and no other: an order is queued only while the
\* queue and the ledger are empty and no services bill is open, so every
\* row of the ledger comes from the order queued last; its bill is
\* generated, saved and closed, and the order removed, on one day or across
\* midnight.
NextOneOrder ==
    \/ services_customer_var = <<>> /\ set_customer(<<"A">>)
    \/ \E service \in Services : add_service_only(service)
    \/ /\ pending_orders = <<>> /\ ledger = <<>>
       /\ \A pb \in PBillIds : pending_bills[pb] = NoPBill
       /\ add_to_pending_orders
    \/ \E selection \in 0..1 : generate_bill_for_pending(selection)
    \/ \E pb \in PBillIds : save_pending_to_database(pb)
    \/ \E pb \in PBillIds : close_pending_bill(pb)
    \/ \E selection \in 0..1 : remove_pending_order(selection)
    \/ next_day(MaxDay)

SpecOneOrder == InitLedger /\ [][NextOneOrder]_vars

\* "Add More Services" pressed over a current order that holds charges: the
\* current order of customer A or B is filled with coffee and tea, queued,
\* billed and saved, and an order of the queue is loaded for
\* editing while the current order is not empty.
NextReopen ==
    \/ \E name \in {<<"A">>, <<"B">>} : set_customer(name)
    \/ \E service \in Services : add_service_only(service)
    \/ add_to_pending_orders
    \/ /\ services_only_list # <<>>
       /\ \E selection \in 0..MaxPending : add_more_services_to_pending(selection)
    \/ \E selection \in 0..1 : generate_bill_for_pending(selection)
    \/ \E pb \in PBillIds : save_pending_to_database(pb)

SpecReopen == InitLedger /\ [][NextReopen]_vars

\* the settings tab as it stands when "Save Settings" is pressed
Entries(ps_rate, coffee, enabled, rate2, rate3) ==
    [ps_rate |-> ps_rate,
     services |-> [s \in Services |->
                      IF s = "coffee" THEN coffee
                      ELSE Number(DefaultConfig.services[s])],
     enabled |-> enabled, rate2 |-> rate2, rate3 |-> rate3]

\* The settings tab: the hourly rate, the coffee price and the 2+ hour rate
\* are typed as a price, as zero, as a negative number or as something
\* float() refuses; the settings are saved, reset, loaded from config.json
\* and read again by a restart.
SettingsEntries ==
    {Entries(ps_rate, coffee, enabled, rate2, Number(4666000)) :
        ps_rate \in {Number(8000000), Number(0), NotANumber},
        coffee \in {Number(3000000), Number(-1000000), NotANumber},
        enabled \in BOOLEAN,
        rate2 \in {Number(4000000), NotANumber}}

NextSettings ==
    \/ \E entries \in SettingsEntries : save_settings(entries)
    \/ reset_settings
    \/ load_config_file
    \/ restart

SpecSettings == Init /\ [][NextSettings]_vars

\* Starting with a config.json that was not written by this version of
\* save_settings: it may lack the hourly rate, the services or the offers,
\* its services may lack tea or hold a service the program does not sell,
\* and it may hold a key the program does not know.  (A file whose offers
\* lack a key is left out: setup_settings_tab raises KeyError on it and the
\* window never opens.)
EmptyFile == [k \in {} |-> 0]

PersistedFiles ==
    {rate @@ services @@ offers @@ unknown :
        rate \in {EmptyFile, "playstation_rate" :> 8000000},
        services \in {EmptyFile,
                      "services" :> ("coffee" :> 3000000 @@ "tea" :> 2500000),
                      "services" :> ("coffee" :> 3000000),
                      "services" :> ("coffee" :> 3000000 @@ "tea" :> 2500000
                                        @@ "cola" :> 1000000)},
        offers \in {EmptyFile,
                    "offers" :> [enabled |-> FALSE, rate2 |-> 4000000,
                                 rate3 |-> 3000000]},
        unknown \in {EmptyFile, "theme" :> 1}}

InitLoad ==
    /\ config_file \in PersistedFiles
    /\ config = load_config(DefaultConfig, config_file)
    /\ InitState

NextLoad ==
    \/ restart
    \/ load_config_file
    \/ reset_settings

SpecLoad == InitLoad /\ [][NextLoad]_vars

\* Price changes while charges are held by a session, the draft and the
\* pending queue: the coffee price is saved as 3000 or as something float()
\* refuses, and coffee is what is ordered.
PriceEntries ==
    {Entries(Number(6000000), coffee, TRUE, Number(5000000), Number(4666000)) :
        coffee \in {Number(3000000), NotANumber}}

NextPrices ==
    \/ \E entries \in PriceEntries : save_settings(entries)
    \/ reset_settings
    \/ start_session("PS1")
    \/ add_service("PS1", "coffee")
    \/ set_customer(<<"A">>)
    \/ add_service_only("coffee")
    \/ add_to_pending_orders

SpecPrices == Init /\ [][NextPrices]_vars

\* Rate changes while a session runs: the hourly rate, the offer flag and
\* the tier rates are saved between start and end.
RateEntries ==
    {Entries(ps_rate, Number(2500000), enabled, rate2, Number(4666000)) :
        ps_rate \in {Number(8000000), NotANumber},
        enabled \in BOOLEAN,
        rate2 \in {Number(5000000), Number(4000000), NotANumber}}

NextRates ==
    \/ clock(TicksPerHour, MaxTime)
    \/ \E entries \in RateEntries : save_settings(entries)
    \/ reset_settings
    \/ start_session("PS1")
    \/ end_session("PS1")
    \/ \E b \in BillIds : close_without_saving(b)

SpecRates == Init /\ [][NextRates]_vars

\* ================================================================== claims
\* the duration a ledger row shows, in ticks
RowDuration(row) ==
    row.Duration_Hours.hh * TicksPerHour
    + row.Duration_Hours.mm \div (60 \div TicksPerHour)

\* the PlayStation cost a bill window stands for: its offer cost when its
\* own check box is on, its normal cost otherwise
OwnCost(b) == IF bills[b].offer_var THEN bills[b].offer_cost ELSE bills[b].normal_cost

\* C1: whatever happens on other stations between end(A) and finalize(A),
\* the record finalize(A) appends carries the station cost of A's own bill:
\* A's offer cost if the check box of A's bill is on, A's normal cost if not.
\* (Stated for a bill of A saved while every other bill opened so far is an
\* open bill of another station.)
C1_FinalizeCommitsOwnCost ==
    [][\A b \in BillIds :
          (/\ IsOpen(b) /\ bills'[b] = Destroyed /\ Len(ledger') = Len(ledger) + 1
           /\ \A c \in BillIds \ {b} :
                 bills[c] = NoBill \/ (IsOpen(c) /\ bills[c].ps # bills[b].ps))
          => ledger'[Len(ledger')].PS_Cost = Round2(OwnCost(b))]_vars

\* C2: with the offers disabled the station cost is duration * hourly rate
\* for every duration: no bill reports an offer as eligible and every ledger
\* record carries the normal-rate cost.
C2_OffersDisabledNormalCost ==
    ~config.offers.enabled =>
        /\ \A d \in 0..MaxTime :
              calculate_ps_cost(d) = (d * config.playstation_rate) \div TicksPerHour
        /\ \A b \in BillIds : IsOpen(b) => ~bills[b].offer_applied
        /\ \A k \in 1..Len(ledger) :
              ledger[k].PS_Cost =
                 Round2((RowDuration(ledger[k]) * config.playstation_rate)
                        \div TicksPerHour)

\* C3: below two hours, under every configuration, the station cost is
\* duration * hourly rate and the bill reports no offer: not eligible,
\* savings 0, offer cost equal to the normal cost.
C3_BelowTwoHoursNormal ==
    /\ \A d \in 0..MaxTime :
          d < 2 * TicksPerHour =>
             calculate_ps_cost(d) = (d * config.playstation_rate) \div TicksPerHour
    /\ \A b \in BillIds :
          (IsOpen(b) /\ bills[b].duration < 2 * TicksPerHour) =>
             /\ ~bills[b].offer_applied
             /\ ~bills[b].offer_var
             /\ bills[b].savings = 0
             /\ bills[b].normal_cost =
                   (bills[b].duration * config.playstation_rate) \div TicksPerHour
             /\ bills[b].offer_cost = bills[b].normal_cost

C3_Witness ==
    \E b \in BillIds :
        /\ IsOpen(b)
        /\ bills[b].duration = 2 * TicksPerHour - 1
        /\ config.offers.enabled
        /\ bills[b].normal_cost > 0

\* C4: from two hours up to three, with the offers enabled, the station cost
\* is duration * 2+ hour rate for the whole duration, in the running cost
\* and in the offer of the bill, and it is strictly below duration * hourly
\* rate whenever the 2+ hour rate is below the hourly rate.
C4_Bill ==
    config.offers.enabled =>
        /\ \A d \in 0..MaxTime :
              (2 * TicksPerHour <= d /\ d < 3 * TicksPerHour) =>
                 /\ calculate_ps_cost(d) = (d * config.offers.rate2) \div TicksPerHour
                 /\ config.offers.rate2 < config.playstation_rate =>
                       calculate_ps_cost(d)
                          < (d * config.playstation_rate) \div TicksPerHour
        /\ \A b \in BillIds :
              (IsOpen(b) /\ 2 * TicksPerHour <= bills[b].duration
                         /\ bills[b].duration < 3 * TicksPerHour) =>
                 /\ bills[b].offer_applied
                 /\ bills[b].offer_text = "2+ Hour Offer"
                 /\ bills[b].offer_cost =
                       (bills[b].duration * config.offers.rate2) \div TicksPerHour

\* ... and the timer callback draws that cost, plus the charges, in the label
C4_Timer ==
    \A ps \in Stations :
        (/\ update_timer
         /\ config.offers.enabled
         /\ sessions[ps].active
         /\ 2 * TicksPerHour <= now - sessions[ps].start_time
         /\ now - sessions[ps].start_time < 3 * TicksPerHour)
        => cost_label'[ps] =
              IntPart(((now - sessions[ps].start_time) * config.offers.rate2)
                         \div TicksPerHour
                      + SumPrices(sessions[ps].services))

C4_TierTwoWholeDuration == []C4_Bill /\ [][C4_Timer]_vars

C4_Witness ==
    \E b \in BillIds :
        /\ IsOpen(b)
        /\ bills[b].duration = 2 * TicksPerHour + 1
        /\ config.offers.enabled
        /\ config.offers.rate2 < config.playstation_rate
        /\ bills[b].offer_cost < bills[b].normal_cost
        /\ sessions[bills[b].ps].active
        /\ now - sessions[bills[b].ps].start_time = 2 * TicksPerHour + 1
        /\ cost_label[bills[b].ps] = IntPart(bills[b].offer_cost)

\* C5: from three hours on, with the offers enabled, the station cost is
\* duration * 3+ hour rate for the whole duration; at three hours exactly it
\* is the 3+ hour rate, not the 2+ hour rate, in the running cost and in the
\* offer of the bill.
C5_Bill ==
    config.offers.enabled =>
        /\ \A d \in 0..MaxTime :
              d >= 3 * TicksPerHour =>
                 calculate_ps_cost(d) = (d * config.offers.rate3) \div TicksPerHour
        /\ \A b \in BillIds :
              (IsOpen(b) /\ bills[b].duration >= 3 * TicksPerHour) =>
                 /\ bills[b].offer_applied
                 /\ bills[b].offer_text = "3+ Hour Offer"
                 /\ bills[b].offer_cost =
                       (bills[b].duration * config.offers.rate3) \div TicksPerHour

\* ... and the timer callback draws that cost, plus the charges, in the label
C5_Timer ==
    \A ps \in Stations :
        (/\ update_timer
         /\ config.offers.enabled
         /\ sessions[ps].active
         /\ now - sessions[ps].start_time >= 3 * TicksPerHour)
        => cost_label'[ps] =
              IntPart(((now - sessions[ps].start_time) * config.offers.rate3)
                         \div TicksPerHour
                      + SumPrices(sessions[ps].services))

C5_TierThreeWholeDuration == []C5_Bill /\ [][C5_Timer]_vars

C5_Witness ==
    \E b \in BillIds :
        /\ IsOpen(b)
        /\ bills[b].duration = 3 * TicksPerHour
        /\ config.offers.enabled
        /\ config.offers.rate2 # config.offers.rate3
        /\ sessions[bills[b].ps].active
        /\ now - sessions[bills[b].ps].start_time = 3 * TicksPerHour
        /\ cost_label[bills[b].ps] = IntPart(bills[b].offer_cost)
        /\ cost_label[bills[b].ps] > 0

\* C6: in every bill, the total is the chosen station cost plus the services
\* cost, the chosen station cost is the offer cost while the check box of the
\* bill is on and the normal cost while it is off, and the savings are the
\* normal cost less the offer cost.
C6_BillFollowsItsCheckBox ==
    \A b \in BillIds :
        IsOpen(b) =>
            /\ bills[b].total_ps = OwnCost(b)
            /\ bills[b].total = OwnCost(b) + bills[b].service_cost
            /\ bills[b].savings = bills[b].normal_cost - bills[b].offer_cost

\* C7: start on a station that is in use fails with the warning "already in
\* use" and leaves the start time and the charges of every session as they
\* were.
C7_StartOnActiveFails ==
    [][\A ps \in Stations :
          (sessions[ps].active /\ start_session(ps))
          => /\ msg' = <<"already in use">>
             /\ sessions' = sessions]_vars

C7_Witness ==
    /\ msg = <<"already in use">>
    /\ \E ps \in Stations :
          /\ sessions[ps].active
          /\ sessions[ps].start_time < now
          /\ sessions[ps].services # <<>>

\* C8: start on an idle station makes it active, with the current time as
\* its start time and no charges.
C8_StartOnIdle ==
    [][\A ps \in Stations :
          (~sessions[ps].active /\ start_session(ps))
          => sessions'[ps] =
                [active |-> TRUE, start_time |-> now, services |-> <<>>]]_vars

C8_Witness ==
    /\ msg = <<"started">>
    /\ \E ps \in Stations :
          /\ sessions[ps].active
          /\ sessions[ps].start_time = now
          /\ now > 0
          /\ sessions[ps].services = <<>>

\* C9: end and add_service on an idle station fail with a "not in use" / "not
\* active" warning: no bill is opened, no charge is appended, and the
\* sessions, the pending orders and the ledger stay as they were.
C9_IdleStationRefuses ==
    [][\A ps \in Stations :
          ~sessions[ps].active =>
             /\ end_session(ps) =>
                   /\ msg' = <<"not in use">>
                   /\ UNCHANGED <<sessions, services_listbox, billVars, ledger, pendingVars, viewVars>>
             /\ (\E service \in Services : add_service(ps, service)) =>
                   /\ msg' = <<"not active">>
                   /\ UNCHANGED <<sessions, services_listbox, billVars, ledger, pendingVars, viewVars>>]_vars

C9_Witness ==
    /\ msg \in {<<"not in use">>, <<"not active">>}
    /\ \E ps \in Stations : ~sessions[ps].active
    /\ \E ps \in Stations : sessions[ps].active
    /\ ledger # <<>>

\* C10: end on a station in use opens its bill and changes neither the
\* sessions nor the ledger: the station is still in use, with the same start
\* time and the same charges.
C10_EndLeavesSession ==
    [][\A ps \in Stations :
          (sessions[ps].active /\ end_session(ps))
          => /\ sessions' = sessions
             /\ ledger' = ledger]_vars

C10_Witness ==
    \E b \in BillIds :
        /\ IsOpen(b)
        /\ bill_total_frame = b
        /\ msg = <<>>
        /\ sessions[bills[b].ps].active
        /\ sessions[bills[b].ps].services # <<>>
        /\ bills[b].duration = now - sessions[bills[b].ps].start_time
        /\ bills[b].duration > 0

\* C11: a save of a station bill that succeeds leaves that station idle, with
\* no start time and no charges, whether the offer check box was on or off,
\* and appends exactly one row to the ledger, labelled with that station.
C11_SaveResetsAndAppendsOne ==
    [][\A b \in BillIds :
          (IsOpen(b) /\ bills'[b] = Destroyed /\ msg' = <<"saved", "refreshed">>)
          => /\ sessions'[bills[b].ps] = IdleSession
             /\ Len(ledger') = Len(ledger) + 1
             /\ SubSeq(ledger', 1, Len(ledger)) = to_excel(read_excel(ledger))
             /\ ledger'[Len(ledger')].PlayStation = bills[b].ps]_vars

C11_Witness ==
    /\ msg = <<"saved", "refreshed">>
    /\ Len(ledger) = 1
    /\ sessions[ledger[1].PlayStation] = IdleSession
    /\ RowDuration(ledger[1]) >= 2 * TicksPerHour
    /\ ~apply_offer_var.value
    /\ ledger[1].Service_Cost > 0

\* C12: "Close Without Saving" leaves the station of the bill idle, with no
\* start time and no charges, and the ledger as it was: the session leaves
\* no row.
C12_DiscardResetsNoRow ==
    [][\A b \in BillIds :
          (IsOpen(b) /\ close_without_saving(b))
          => /\ sessions'[bills[b].ps] = IdleSession
             /\ bills'[b] = Destroyed
             /\ ledger' = ledger]_vars

C12_Witness ==
    /\ ledger = <<>>
    /\ msg = <<>>
    /\ now > 0
    /\ \E b \in BillIds : bills[b] = Destroyed
    /\ \A ps \in Stations : sessions[ps] = IdleSession

\* C13: in every reachable state, a station has a start time exactly when it
\* is active, and an idle station has no charges.
C13_StartTimeIffActive ==
    \A ps \in Stations :
        /\ sessions[ps].active <=> sessions[ps].start_time # -1
        /\ ~sessions[ps].active => sessions[ps].services = <<>>

C13_Witness ==
    /\ \E b, c \in BillIds : IsOpen(b) /\ bills[c] = Destroyed
    /\ ledger # <<>>
    /\ \E ps \in Stations :
          /\ sessions[ps] = IdleSession
          /\ ledger[1].PlayStation = ps
    /\ \E ps \in Stations :
          /\ sessions[ps].active
          /\ sessions[ps].services # <<>>
          /\ sessions[ps].start_time > 0

\* C14: the price of a charge is the price at the time it was added: a save
\* or a reset of the settings that changes the configuration leaves every
\* charge of the sessions, of the current order and of the pending orders,
\* and the total of every pending order, as they were.
C14_ChargesKeepTheirPrice ==
    [][config' # config =>
          /\ sessions' = sessions
          /\ services_only_list' = services_only_list
          /\ pending_orders' = pending_orders]_vars

C14_Witness ==
    /\ msg = <<"settings saved">>
    /\ config.services["coffee"] = 3000000
    /\ sessions["PS1"].services = <<[name |-> "coffee", price |-> 2500000]>>
    /\ services_only_list = <<[name |-> "coffee", price |-> 2500000]>>
    /\ Len(pending_orders) = 1
    /\ pending_orders[1].services = <<[name |-> "coffee", price |-> 2500000]>>
    /\ pending_orders[1].total = 2500000

\* C15: the bill end_session opens is priced with the hourly rate and the
\* tier rates the configuration holds when end_session runs, whatever they
\* were when the session started.
C15_RatesReadAtEnd ==
    [][\A b \in BillIds :
          (bills[b] = NoBill /\ bills'[b].ps \in Stations) =>
             LET d == bills'[b].duration
             IN  /\ d = now - sessions[bills'[b].ps].start_time
                 /\ bills'[b].normal_cost =
                       (d * config.playstation_rate) \div TicksPerHour
                 /\ d >= 3 * TicksPerHour =>
                       bills'[b].offer_cost =
                          (d * config.offers.rate3) \div TicksPerHour
                 /\ (2 * TicksPerHour <= d /\ d < 3 * TicksPerHour) =>
                       bills'[b].offer_cost =
                          (d * config.offers.rate2) \div TicksPerHour
                 /\ bills'[b].total_ps \in {bills'[b].normal_cost,
                                            bills'[b].offer_cost}]_vars

C15_Witness ==
    \E b \in BillIds :
        /\ IsOpen(b)
        /\ bills[b].duration = 2 * TicksPerHour
        /\ sessions[bills[b].ps].start_time = 0
        /\ config.playstation_rate = 8000000
        /\ config.offers.rate2 = 4000000
        /\ bills[b].normal_cost = 16000000
        /\ bills[b].offer_cost = 8000000
        /\ bills[b].total_ps = 8000000

\* C16: when a services bill writes its row to the ledger, exactly the order
\* of that bill leaves the pending queue (if it is still queued), and the
\* other orders stay, in the order they had.
C16_SavedOrderLeavesQueue ==
    [][\A pb \in PBillIds :
          (/\ pending_bills[pb] # NoPBill
           /\ Len(ledger') = Len(ledger) + 1
           /\ ledger'[Len(ledger')] = PendingRow(pending_bills[pb].order))
          => IF \E k \in 1..Len(pending_orders) :
                   pending_orders[k] = pending_bills[pb].order
             THEN \E k \in 1..Len(pending_orders) :
                     /\ pending_orders[k] = pending_bills[pb].order
                     /\ pending_orders' = RemoveAt(pending_orders, k)
             ELSE pending_orders' = pending_orders]_vars

\* the total a ledger row lists charge by charge
RECURSIVE ListedTotal(_)
ListedTotal(listed) ==
    IF listed = <<>> THEN 0 ELSE Head(listed).price + ListedTotal(Tail(listed))

\* C17: the row a services bill writes has the station label "Services
\* Only", the duration 00:00, the station cost 0, the customer of the order,
\* and a services cost and a total both equal to the sum of the prices of the
\* charges of the order.
C17_Row ==
    \A k \in 1..Len(ledger) :
        ledger[k].PlayStation = "Services Only" =>
            /\ ledger[k].Duration_Hours = [hh |-> 0, mm |-> 0]
            /\ ledger[k].PS_Cost = 0
            /\ ledger[k].Services # <<>>
            /\ ledger[k].Service_Cost = ListedTotal(ledger[k].Services)
            /\ ledger[k].Total_Cost = ledger[k].Service_Cost

C17_Step ==
    \A pb \in PBillIds :
        (/\ Len(ledger') = Len(ledger) + 1
         /\ pending_bills[pb] # NoPBill
         /\ save_pending_to_database(pb))
        => LET row == ledger'[Len(ledger')]
               order == pending_bills[pb].order
           IN  /\ row.PlayStation = "Services Only"
               /\ row.Customer = order.customer
               /\ row.Service_Cost = SumPrices(order.services)
               /\ row.Total_Cost = SumPrices(order.services)

C18_EmptyOrderOrNameRefused ==
    [][/\ (services_only_list = <<>> /\ add_to_pending_orders) =>
                /\ msg' = <<"no services in current order">>
                /\ UNCHANGED pendingVars
       /\ (/\ services_only_list # <<>>
           /\ \A i \in 1..Len(services_customer_var) :
                  services_customer_var[i] = " "
           /\ add_to_pending_orders) =>
                /\ msg' = <<"enter customer name">>
                /\ UNCHANGED pendingVars]_vars

C18_Witness ==
    /\ msg = <<"enter customer name">>
    /\ services_customer_var = <<" ">>
    /\ services_only_list # <<>>
    /\ pending_orders # <<>>

\* C19: in every reachable state, every pending order has a customer name
\* that is not blank, at least one charge, and a total equal to the sum of
\* the prices of its charges.
C19_PendingOrdersWellFormed ==
    \A k \in 1..Len(pending_orders) :
        /\ pending_orders[k].customer # <<>>
        /\ \E i \in 1..Len(pending_orders[k].customer) :
              pending_orders[k].customer[i] # " "
        /\ pending_orders[k].services # <<>>
        /\ pending_orders[k].total = SumPrices(pending_orders[k].services)

C19_Witness ==
    /\ Len(pending_orders) = 2
    /\ Len(pending_orders[2].services) = 2
    /\ pending_orders[1].services # pending_orders[2].services
    /\ ledger # <<>>
    /\ msg = <<"added to pending orders">>

\* C20: "Remove" with the row at a position of the queue selected removes
\* exactly the order at that position and keeps the others in order; a
\* position past the end of the queue raises IndexError and leaves the queue
\* as it was.  (The tree always shows the queue, so every selected row is a
\* position of the queue.)
C20_Step ==
    \A selection \in 1..(MaxPending + 1) :
        (/\ msg' \in {<<"pending order removed">>, <<"IndexError">>}
         /\ remove_pending_order(selection)) =>
            IF selection > Len(pending_orders)
            THEN msg' = <<"IndexError">> /\ pending_orders' = pending_orders
            ELSE /\ msg' = <<"pending order removed">>
                 /\ Len(pending_orders') = Len(pending_orders) - 1
                 /\ \A k \in 1..Len(pending_orders') :
                       pending_orders'[k] =
                          IF k < selection THEN pending_orders[k]
                          ELSE pending_orders[k + 1]

C21_Reopen ==
    \A selection \in 1..MaxPending :
        (msg' = <<"loaded for editing">>
         /\ add_more_services_to_pending(selection)) =>
            /\ selection <= Len(pending_orders)
            /\ services_only_list' = pending_orders[selection].services
            /\ services_customer_var' = pending_orders[selection].customer
            /\ Len(pending_orders') = Len(pending_orders) - 1
            /\ \A k \in 1..Len(pending_orders') :
                  pending_orders'[k] =
                     IF k < selection THEN pending_orders[k]
                     ELSE pending_orders[k + 1]

C21_Reappend ==
    Len(pending_orders') > Len(pending_orders) =>
        /\ msg' = <<"added to pending orders">>
        /\ Len(pending_orders') = Len(pending_orders) + 1
        /\ SubSeq(pending_orders', 1, Len(pending_orders)) = pending_orders
        /\ pending_orders'[Len(pending_orders')].services = services_only_list
        /\ pending_orders'[Len(pending_orders')].customer =
              Strip(services_customer_var)

C21_ReopenThenAppendAtEnd == [][C21_Reopen /\ C21_Reappend]_vars

C21_Witness ==
    /\ msg = <<"added to pending orders">>
    /\ Len(pending_orders) = 2
    /\ Len(pending_orders[2].services) = 2
    /\ Len(pending_orders[1].services) = 1
    /\ pending_orders[2].services[1] # pending_orders[1].services[1]
    /\ \E pb \in PBillIds :
          /\ pending_bills[pb] # NoPBill
          /\ pending_bills[pb].order_index = 1
          /\ Len(pending_bills[pb].order.services) = 1
          /\ pending_bills[pb].order.services[1] = pending_orders[2].services[1]

\* C22: "Delete Selected" on the row at a position of the displayed rows
\* removes exactly the record shown at that position from the ledger, also
\* when the view shows the rows of one date only; the other records stay as
\* they are.
C22_DeleteRemovesShownRow ==
    [][\A selection \in 1..(MaxLedger * MaxDay) :
          (msg' = <<"refreshed", "deleted">>
           /\ delete_selected_row(selection)) =>
              \E k \in 1..Len(ledger) :
                 /\ TreeValues(read_excel(ledger))[k] = tree[selection]
                 /\ ledger' = to_excel(RemoveAt(read_excel(ledger), k))]_vars

\* C23: the ledger is append-only: a step either leaves the ledger as it is,
\* or is a save that puts one record after the records already there, or is
\* a delete that takes one record out; the records that stay keep their
\* field values and their order.
C23_AppendOnly ==
    [][\/ ledger' = ledger
       \/ /\ msg' \in {<<"saved", "refreshed">>,
                       <<"failed to save order", "NameError">>}
          /\ Len(ledger') = Len(ledger) + 1
          /\ SubSeq(ledger', 1, Len(ledger)) = ledger
       \/ /\ msg' = <<"refreshed", "deleted">>
          /\ \E k \in 1..Len(ledger) : ledger' = RemoveAt(ledger, k)]_vars

\* C24: when the Excel file cannot be read or written during a save, nothing
\* is lost: the ledger is as it was, the station is still in use with its
\* charges and the pending order is still queued, the bill windows stay open
\* with their figures, and the row a retried save writes is the row this
\* save would have written (station cost, services cost and total included).
C24_FailedSaveLosesNothing ==
    [][msg' \in {<<"failed to save">>, <<"failed to save order", "IOError">>} =>
          /\ ledger' = ledger
          /\ sessions' = sessions
          /\ pending_orders' = pending_orders
          /\ bills' = bills
          /\ pending_bills' = pending_bills
          /\ \A b \in BillIds :
                IsOpen(b) =>
                   NewRow(bills[b].ps, bills[b].duration, bills[b].service_cost)'
                      = NewRow(bills[b].ps, bills[b].duration, bills[b].service_cost)
          /\ \A pb \in PBillIds :
                pending_bills[pb] # NoPBill =>
                   PendingRow(pending_bills[pb].order)'
                      = PendingRow(pending_bills[pb].order)]_vars

C24_Witness ==
    /\ msg = <<"failed to save">>
    /\ ledger = <<>>
    /\ Len(pending_orders) = 1
    /\ \E pb \in PBillIds : pending_bills[pb] # NoPBill
    /\ \E b \in BillIds :
          /\ IsOpen(b)
          /\ bills[b].duration = 2 * TicksPerHour
          /\ sessions[bills[b].ps].active
          /\ sessions[bills[b].ps].services # <<>>
          /\ NewRow(bills[b].ps, bills[b].duration, bills[b].service_cost).PS_Cost > 0

\* an entry that is not a number, or is a number that is zero or negative
BadPrice(entry) == ~entry.valid \/ entry.value <= 0

HasBadPrice(entries) ==
    \/ BadPrice(entries.ps_rate)
    \/ \E s \in Services : BadPrice(entries.services[s])
    \/ BadPrice(entries.rate2)
    \/ BadPrice(entries.rate3)

\* C25: "Save Settings" with an hourly rate, a service price or a tier rate
\* that is not a number, or is zero or negative, is refused with the
\* invalid-number error, and nothing of it is written to config.json.
C25_BadPriceRefused ==
    [][\A entries \in SettingsEntries :
          (HasBadPrice(entries) /\ save_settings(entries)) =>
              /\ msg' = <<"enter valid numbers">>
              /\ config_file' = config_file]_vars

\* C26: a "Save Settings" that is refused leaves every field of the
\* configuration in memory as it was.
C26_RefusedSaveKeepsConfig ==
    [][\A entries \in SettingsEntries :
          (msg' = <<"enter valid numbers">> /\ save_settings(entries)) =>
              config' = config]_vars

\* C27: after a "Save Settings" that succeeds and after a "Reset to Default",
\* what config.json holds is the configuration in memory: a restart loads the
\* configuration the step left (after a reset, the defaults).
C27_PersistedEqualsConfig ==
    [][msg' \in {<<"settings saved">>, <<"settings reset">>} =>
          load_config(DefaultConfig, config_file') = config']_vars

\* C29: in every reachable state the hourly rate, every service price and the
\* two tier rates of the configuration are non-negative.
C29_PricesNonNegative ==
    /\ config.playstation_rate >= 0
    /\ \A s \in Services : config.services[s] >= 0
    /\ config.offers.rate2 >= 0
    /\ config.offers.rate3 >= 0

\* C28: the configuration a start of the program loads is the defaults with
\* the known fields of config.json laid over them one by one: a field the
\* file lacks (a service price inside services included) keeps its default,
\* and a field the program does not know does not appear.
C28_LoadMergesFieldByField ==
    [][restart => config' = MergeFile(DefaultConfig, config_file)]_vars

\* C30: every record of the ledger, as stored (each amount rounded to two
\* decimal places), has a total cost equal to its station cost plus its
\* services cost.
C30_StoredTotalIsSum ==
    \A k \in 1..Len(ledger) :
        ledger[k].Total_Cost = ledger[k].PS_Cost + ledger[k].Service_Cost

\* a handler that ran refresh_database to its end
Refreshed ==
    msg' \in {<<"refreshed">>, <<"saved", "refreshed">>, <<"refreshed", "deleted">>}

OthersKept(ps) == \A other \in Stations \ {ps} : sessions'[other] = sessions[other]

\* C32: a start, a charge added or removed, an end, a save or a discard on
\* one station leaves the active flag, the start time and the charges of
\* every other station as they were, and the handlers of the services-only
\* orders leave every station as it was.
C32_StationIsolation ==
    [][/\ \A ps \in Stations :
             (\/ start_session(ps)
              \/ add_service(ps, "coffee")
              \/ (\E index \in 0..MaxCharges : remove_service(ps, index))
              \/ end_session(ps)) => OthersKept(ps)
       /\ \A b \in BillIds :
             (save_bill_to_database(b) \/ close_without_saving(b))
                => OthersKept(bills[b].ps)
       /\ (\/ pending_orders' # pending_orders
           \/ services_only_list' # services_only_list
           \/ services_customer_var' # services_customer_var
           \/ pending_bills' # pending_bills) => sessions' = sessions]_vars

C32_Witness ==
    /\ msg = <<"saved", "refreshed">>
    /\ ledger # <<>>
    /\ sessions["PS1"] = IdleSession
    /\ sessions["PS2"].active
    /\ sessions["PS2"].services # <<>>
    /\ pending_orders # <<>>
    /\ \E pb \in PBillIds : pending_bills[pb] # NoPBill


C34_TickReportsCost ==
    [][update_timer =>
          \A ps \in Stations :
             sessions[ps].active =>
                cost_label'[ps] * MillsPerUnit =
                   calculate_ps_cost(now - sessions[ps].start_time)
                   + SumPrices(sessions[ps].services)]_vars

\* C34: the timer callback changes no session, no pending order, no ledger
\* row and no setting; for an active station it shows the whole part of the
\* station cost of the elapsed time, under the current settings, plus the
\* prices of its charges, and for an idle station it shows 0.
C34_TickReadOnly ==
    [][update_timer =>
          /\ sessions' = sessions
          /\ pending_orders' = pending_orders
          /\ services_only_list' = services_only_list
          /\ ledger' = ledger
          /\ config' = config /\ config_file' = config_file
          /\ \A ps \in Stations :
                cost_label'[ps] =
                   IF sessions[ps].active
                   THEN IntPart(calculate_ps_cost(now - sessions[ps].start_time)
                                + SumPrices(sessions[ps].services))
                   ELSE 0]_vars

C34_Witness ==
    /\ config.playstation_rate = 6001000
    /\ sessions["PS1"].active /\ ~sessions["PS2"].active
    /\ now - sessions["PS1"].start_time = 1
    /\ sessions["PS1"].services # <<>>
    /\ pending_orders # <<>>
    /\ cost_label["PS1"] = 5500
    /\ cost_label["PS2"] = 0
    /\ calculate_ps_cost(1) + SumPrices(sessions["PS1"].services) = 5500500

\* C35: a station session leaves at most one row in the ledger, however
\* often it is ended, saved and discarded: in a run with a single session
\* the ledger never holds two rows.
C35_OneRowPerSession == Len(ledger) <= 1

\* C36: a pending order is written to the ledger at most once, however often
\* its bill is generated and saved: while every row of the ledger comes from
\* one order, the ledger never holds two rows.
C36_OneRowPerOrder == Len(ledger) <= 1

\* C37: Save to Database and Close Without Saving of a bill act only on the
\* session the bill was made for: a bill whose duration is longer than the
\* time the station's present session has run was made for an earlier
\* session, and its buttons neither reset the present session and its
\* charges nor write a row.
C37_BillActsOnOwnSession ==
    [][\A b \in BillIds :
          (/\ IsOpen(b)
           /\ sessions[bills[b].ps].active
           /\ now - sessions[bills[b].ps].start_time < bills[b].duration
           /\ save_bill_to_database(b) \/ close_without_saving(b))
          => /\ sessions'[bills[b].ps] = sessions[bills[b].ps]
             /\ ledger' = ledger]_vars

\* C38: in the row Save to Database writes for a station, Service_Cost is the
\* sum of the prices listed in Services, and Services is "None" exactly when
\* Service_Cost is 0, also when charges were added or removed between End
\* Session and the save.
C38_ServicesMatchTheirCost ==
    [][\A b \in BillIds :
          (/\ IsOpen(b)
           /\ Len(ledger') = Len(ledger) + 1
           /\ save_bill_to_database(b))
          => LET row == ledger'[Len(ledger')]
             IN  /\ row.Service_Cost = MillsPerUnit * SumPrices(row.Services)
                 /\ row.Services = NoneStr <=> row.Service_Cost = 0]_vars

\* C39: under every setting the program can hold and for every duration, a
\* bill with an offer has an offer cost that is not above its normal cost,
\* and savings that are not negative.
C39_OfferNeverDearer ==
    \A b \in BillIds :
        (IsOpen(b) /\ bills[b].offer_applied) =>
            /\ bills[b].offer_cost <= bills[b].normal_cost
            /\ bills[b].savings >= 0

\* C40: "Add More Services" replaces the current order: afterwards its
\* customer and its charges are exactly those of the order loaded, and the
\* charges it held before are dropped: no order is added to the queue, which
\* only loses the order loaded, and no row is written.
C40_ReopenReplacesDraft ==
    [][\A selection \in 1..MaxPending :
          (/\ msg' = <<"loaded for editing">>
           /\ services_only_list # <<>>
           /\ add_more_services_to_pending(selection))
          => /\ selection <= Len(pending_orders)
             /\ services_only_list' = pending_orders[selection].services
             /\ services_customer_var' = pending_orders[selection].customer
             /\ pending_orders' = RemoveAt(pending_orders, selection)
             /\ pending_bills' = pending_bills
             /\ ledger' = ledger]_vars

C40_Witness ==
    /\ msg = <<"loaded for editing">>
    /\ services_customer_var = <<"A">>
    /\ Len(services_only_list) = 1
    /\ services_only_list[1].name = "tea"
    /\ Len(pending_orders) = 1
    /\ pending_orders[1].customer = <<"B">>
    /\ \A k \in 1..Len(pending_orders[1].services) :
          pending_orders[1].services[k].name = "tea"
    /\ ledger = <<>>

=============================================================================
